---- MODULE Spec2Model ----
(***************************************************************************)
(* Lineage explorer: the in-memory lineage graph engine                    *)
(* (backend/app/services/graph_engine.py) and the cache merger             *)
(* (backend/scripts/merge_caches.py).                                      *)
(*                                                                         *)
(* Python dicts are modelled as functions whose DOMAIN is the key set,     *)
(* Python lists as sequences, Python sets as sets.  Iterating a Python set *)
(* has no defined order: every order is a possible behaviour.              *)
(***************************************************************************)
EXTENDS Naturals, Integers, Sequences, FiniteSets, TLC

(***************************************************************************)
(* Bounds of the graph-engine inputs.                                      *)
(***************************************************************************)
MaxDeps == 3
MaxDepth == 5

(***************************************************************************)
(* Bounds of the merger inputs: the longest object list and the longest    *)
(* dependency list of a cache file.                                        *)
(***************************************************************************)
MaxMergeObjs == 2
MaxMergeDeps == 2

Ids == {"A", "B", "C", "D"}

\* The depth arguments tried: none, one hop, and one that exceeds every path
\* of the bounded graphs.
Depths == {0, 1, MaxDepth}

(***************************************************************************)
(* Python dict helpers.                                                    *)
(***************************************************************************)
EmptyDict == << >>

DictGet(d, k, default) == IF k \in DOMAIN d THEN d[k] ELSE default

DictPut(d, k, v) == [x \in (DOMAIN d) \cup {k} |-> IF x = k THEN v ELSE d[x]]

\* {**a, **b}: b's entries override a's.
DictMerge(a, b) ==
    [x \in (DOMAIN a) \cup (DOMAIN b) |-> IF x \in DOMAIN b THEN b[x] ELSE a[x]]

\* dict[k].add(v) after "if k not in dict: dict[k] = set()".
SetDictAdd(d, k, v) == DictPut(d, k, DictGet(d, k, {}) \cup {v})

\* Every order in which a Python set can be iterated.
Orders(S) ==
    {s \in [1..Cardinality(S) -> S] : \A i, j \in 1..Cardinality(S) : s[i] = s[j] => i = j}

Range(s) == {s[i] : i \in DOMAIN s}

\* A JSON container with its shape: a map ("dict") or a sequence ("list").
Container(kind, items) == [kind |-> kind, items |-> items]

(***************************************************************************)
(* Cache data: the "objects" and "dependencies" sections of the JSON.      *)
(***************************************************************************)
SchemaOf(id) == IF id \in {"A", "B"} THEN "DWH" ELSE "STG"

TypeOf(id) == IF id \in {"A", "C"} THEN "TABLE" ELSE "VIEW"

\* One raw object of the cache, as load_cache receives it (field "schema").
ObjData(id) == [id |-> id, schema |-> SchemaOf(id), type |-> TypeOf(id)]

\* The object sets tried: every id an object, or one id not an object
\* (dependencies naming it then dangle, and a query for it starts nowhere).
ObjectSets == {Ids, Ids \ {"B"}, Ids \ {"D"}}

TableDep(s, t, dt) ==
    [source_id |-> s, target_id |-> t, dependency_type |-> dt, reference_type |-> "SELECT"]

\* The dependencies a cache may hold: the chain A->B->C->D, the back edge
\* B->A and the self-loop A->A.  A cache lists up to MaxDeps of them, in any
\* order, repetitions included.
DepPool ==
    { TableDep("A", "B", "DATA"), TableDep("B", "C", "VIEW"), TableDep("C", "D", "DATA"),
      TableDep("B", "A", "ETL"), TableDep("A", "A", "DATA") }

SeqsUpTo(S, n) == UNION {[1..k -> S] : k \in 0..n}

Caches ==
    { [objects |-> [i \in O |-> ObjData(i)], table_level |-> tl, column_level |-> << >>] :
        O \in ObjectSets, tl \in SeqsUpTo(DepPool, MaxDeps) }

VARIABLES
    phase,                \* "new": engine constructed; "loaded": load_cache has run
    objects,              \* _objects: id -> DatabaseObject
    forward_edges,        \* _forward_edges: source -> set of targets
    backward_edges,       \* _backward_edges: target -> set of sources
    table_deps,           \* _table_deps
    by_schema,            \* _by_schema
    by_type,              \* _by_type
    edge_map,             \* _edge_map: <<source, target>> -> TableLevelDependency
    pc,                   \* "idle", "bfs" (inside _traverse's loop), "done"
    call,                 \* the running / last query: [op, object_id, depth, ...]
    direction,            \* _traverse's direction argument
    depth,                \* _traverse's depth argument
    queue,                \* _traverse's deque of <<id, depth>>
    visited,              \* _traverse's visited set
    result_nodes,
    result_edges,
    has_more_upstream,
    has_more_downstream,
    dequeued,             \* history: the ids popped by the running _traverse, in order
    upstream,             \* get_full_lineage's local: result of the backward call
    downstream,           \* get_full_lineage's local: result of the forward call
    result,               \* the LineageResult returned to the caller
    cacheA,               \* merge_caches.py: a cache file given to the merger
    cacheB,               \* merge_caches.py: a second cache file
    cacheC,               \* the cache written by merging cacheB into cacheA
    remerged,             \* the outcome of the last merge into cacheA or cacheC
    mpc                   \* "input", "merged" (cacheC written), or the re-merge run

VARIABLES
    load_input,           \* load_cache's cache_data argument when it is a cache file
    load_raised,          \* the exception load_cache raised on it, "" for none
    listing               \* the last list_objects request and its response

VARIABLES
    file,                 \* what the cache source (local file or GCS blob) holds
    ldr_engine,           \* CacheLoader._engine: 0 for None, else an index of heap
    ldr_loaded_at,        \* CacheLoader._loaded_at: 0 for None, else a time
    heap,                 \* the LineageGraphEngine instances constructed so far
    clock,                \* datetime.now()
    started,              \* lifespan's startup part has run
    th,                   \* per thread: position and locals of its call
    ops,                  \* number of requests and reload calls begun
    responses             \* the HTTP responses sent

VARIABLES
    sql,                  \* the SQL statement a UDF script executes
    has_sqlglot,          \* HAS_SQLGLOT: the build has sqlglot installed
    require_schema,       \* SQLParser.require_schema
    references,           \* what SQLParser.parse returned for sql
    udf_deps,             \* the table dependencies the extractor appended for the UDF
    sql_more,             \* the statements that follow sql in the same SQL input
    validated             \* what parse_script returned for sql and a known_objects set

VARIABLES
    column_deps,          \* the column_level dependencies load_cache indexed
    col_call,             \* the running / last get_column_lineage call
    col_pc,               \* "idle", "upstream", "downstream" (inside the traversal), "done"
    col_queue,            \* _traverse_column_lineage's deque of <<column key, depth>>
    col_visited,          \* _traverse_column_lineage's visited set
    col_results,          \* _traverse_column_lineage's results list
    col_response          \* the dict get_column_lineage builds and returns

VARIABLES
    select_expr,          \* the expression of one SELECT column given to the extractor
    lineage_env,          \* HAS_SQLGLOT_LINEAGE and whether the sqlglot extraction raised
    column_lineage        \* what extract_column_lineage returned

VARIABLES
    extractor,            \* which extractor is building the fragment
    frag_objects,         \* the fragment's objects: id -> object
    frag_deps             \* the fragment's table-level dependencies

mergeVars == << cacheA, cacheB, cacheC, remerged, mpc >>

loaderVars == << file, ldr_engine, ldr_loaded_at, heap, clock, started, th, ops, responses >>

shapeVars == << load_input, load_raised >>

pageVars == << listing >>

parserVars == << sql, has_sqlglot, require_schema, references, udf_deps, sql_more, validated >>

columnVars ==
    << column_deps, col_call, col_pc, col_queue, col_visited, col_results, col_response >>

lineageVars == << select_expr, lineage_env, column_lineage >>

extractorVars == << extractor, frag_objects, frag_deps >>

\* The column lineage queries, the column lineage extractor and the extractors' fragments.
moreVars == << columnVars, lineageVars, extractorVars >>

\* The variables of the subsystems other than the lineage queries and the merger.
restVars == << shapeVars, pageVars, loaderVars, parserVars, moreVars >>

vars ==
    << restVars, cacheA, cacheB, cacheC, remerged, mpc, phase, objects, forward_edges, backward_edges, table_deps, by_schema, by_type,
       edge_map, pc, call, direction, depth, queue, visited, result_nodes, result_edges,
       has_more_upstream, has_more_downstream, dequeued, upstream, downstream, result >>

graphVars ==
    << phase, objects, forward_edges, backward_edges, table_deps, by_schema, by_type,
       edge_map, pc, call, direction, depth, queue, visited, result_nodes, result_edges,
       has_more_upstream, has_more_downstream, dequeued, upstream, downstream, result >>

engineVars ==
    << phase, objects, forward_edges, backward_edges, table_deps, by_schema, by_type,
       edge_map >>

NoResult == [nodes |-> EmptyDict, edges |-> << >>,
             has_more_upstream |-> EmptyDict, has_more_downstream |-> EmptyDict]

NoCall == [op |-> "none"]

(***************************************************************************)
(* LineageGraphEngine.load_cache                                           *)
(***************************************************************************)
\* DatabaseObject(**obj_data) after the "schema" -> "schema_name" re-keying.
DatabaseObject(obj_data) ==
    [id |-> obj_data.id, schema_name |-> obj_data.schema, type |-> obj_data.type]

\* The loop over cache_data["objects"].items(): the object map and the two
\* filter indexes.  ids is the iteration order of the remaining items.
RECURSIVE LoadObjects(_, _, _)
LoadObjects(eng, objs, ids) ==
    IF ids = << >> THEN eng
    ELSE LET obj_id == Head(ids)
             obj == DatabaseObject(objs[obj_id])
         IN  LoadObjects(
                 [eng EXCEPT !.objects = DictPut(@, obj_id, obj),
                             !.by_schema = SetDictAdd(@, obj.schema_name, obj_id),
                             !.by_type = SetDictAdd(@, obj.type, obj_id)],
                 objs, Tail(ids))

\* A build that files the backward entry under the source instead of the target.
RECURSIVE LoadTableDeps_BackwardUnderSource(_, _)
LoadTableDeps_BackwardUnderSource(eng, deps) ==
    IF deps = << >> THEN eng
    ELSE LET dep == Head(deps)
             source == dep.source_id
             target == dep.target_id
         IN  LoadTableDeps_BackwardUnderSource(
                 [eng EXCEPT !.table_deps = Append(@, dep),
                             !.forward_edges = SetDictAdd(@, source, target),
                             !.backward_edges = SetDictAdd(@, source, target),
                             !.edge_map = DictPut(@, <<source, target>>, dep)],
                 Tail(deps))

\* The loop over deps["table_level"].
RECURSIVE LoadTableDeps(_, _)
LoadTableDeps(eng, deps) ==
    IF deps = << >> THEN eng
    ELSE LET dep == Head(deps)
             source == dep.source_id
             target == dep.target_id
         IN  LoadTableDeps(
                 [eng EXCEPT !.table_deps = Append(@, dep),
                             !.forward_edges = SetDictAdd(@, source, target),
                             !.backward_edges = SetDictAdd(@, target, source),
                             !.edge_map = DictPut(@, <<source, target>>, dep)],
                 Tail(deps))

NewEngine ==
    [objects |-> EmptyDict, forward_edges |-> EmptyDict, backward_edges |-> EmptyDict,
     table_deps |-> << >>, by_schema |-> EmptyDict, by_type |-> EmptyDict,
     edge_map |-> EmptyDict]

\* dicts keep insertion order, so the objects are loaded in the order the
\* cache lists them; the indices built do not depend on it.
load_cache(cache_data, ids) ==
    LoadTableDeps(LoadObjects(NewEngine, cache_data.objects, ids), cache_data.table_level)

LoadCache ==
    /\ phase = "new"
    /\ \E cache_data \in Caches :
         \E ids \in Orders(DOMAIN cache_data.objects) :
           LET eng == load_cache(cache_data, ids)
           IN  /\ objects' = eng.objects
               /\ forward_edges' = eng.forward_edges
               /\ backward_edges' = eng.backward_edges
               /\ table_deps' = eng.table_deps
               /\ by_schema' = eng.by_schema
               /\ by_type' = eng.by_type
               /\ edge_map' = eng.edge_map
    /\ phase' = "loaded"
    /\ UNCHANGED << mergeVars, restVars, pc, call, direction, depth, queue, visited, result_nodes,
                    result_edges,
                    has_more_upstream, has_more_downstream, dequeued, upstream,
                    downstream, result >>

(***************************************************************************)
(* LineageGraphEngine._traverse                                            *)
(***************************************************************************)
LineageResult(nodes, edges, hmu, hmd) ==
    [nodes |-> nodes, edges |-> edges, has_more_upstream |-> hmu,
     has_more_downstream |-> hmd]

\* The edge looked up for a neighbour: forward edges are keyed
\* (current, neighbour), backward edges (neighbour, current).
EdgeKey(dir, current_id, neighbor_id) ==
    IF dir = "forward" THEN <<current_id, neighbor_id>> ELSE <<neighbor_id, current_id>>

\* An expansion that enqueues every neighbour, visited or not.
RECURSIVE ExpandNeighbors_NoVisitedCheck(_, _, _, _, _, _)
ExpandNeighbors_NoVisitedCheck(st, emap, dir, current_id, current_depth, order) ==
    IF order = << >> THEN st
    ELSE LET neighbor_id == Head(order)
             key == EdgeKey(dir, current_id, neighbor_id)
             edges1 == IF key \in DOMAIN emap THEN Append(st.edges, emap[key])
                       ELSE st.edges
         IN  ExpandNeighbors_NoVisitedCheck(
                 [edges |-> edges1,
                  visited |-> st.visited \cup {neighbor_id},
                  queue |-> Append(st.queue, <<neighbor_id, current_depth + 1>>)],
                 emap, dir, current_id, current_depth, Tail(order))

\* The "for neighbor_id in neighbors" loop of one expansion, the neighbours
\* taken in the given order.  st = [edges, visited, queue].
RECURSIVE ExpandNeighbors(_, _, _, _, _, _)
ExpandNeighbors(st, emap, dir, current_id, current_depth, order) ==
    IF order = << >> THEN st
    ELSE LET neighbor_id == Head(order)
             key == EdgeKey(dir, current_id, neighbor_id)
             edges1 == IF key \in DOMAIN emap THEN Append(st.edges, emap[key])
                       ELSE st.edges
             fresh == neighbor_id \notin st.visited
         IN  ExpandNeighbors(
                 [edges |-> edges1,
                  visited |-> IF fresh THEN st.visited \cup {neighbor_id} ELSE st.visited,
                  queue |-> IF fresh THEN Append(st.queue, <<neighbor_id, current_depth + 1>>)
                            ELSE st.queue],
                 emap, dir, current_id, current_depth, Tail(order))

\* Line 276: only expand if within depth limit.
WithinDepth_OffByOne(current_depth, d) == current_depth <= d

WithinDepth(current_depth, d) == current_depth < d

\* any(n not in visited for n in neighbors)
AnyUnvisited(neighbors, seen) == \E n \in neighbors : n \notin seen

\* Lines 245-257: the locals of _traverse before its loop.
StartTraverse(start_id, d, dir) ==
    /\ direction' = dir
    /\ depth' = d
    /\ queue' = << <<start_id, 0>> >>
    /\ visited' = {start_id}
    /\ result_nodes' = EmptyDict
    /\ result_edges' = << >>
    /\ has_more_upstream' = EmptyDict
    /\ has_more_downstream' = EmptyDict
    /\ dequeued' = << >>
    /\ pc' = "bfs"

\* One iteration of "while queue".
BfsStep ==
    /\ pc = "bfs"
    /\ queue # << >>
    /\ LET current_id == Head(queue)[1]
           current_depth == Head(queue)[2]
           rest == Tail(queue)
           edges_map == IF direction = "forward" THEN forward_edges ELSE backward_edges
       IN  /\ dequeued' = Append(dequeued, current_id)
           /\ IF current_id \notin DOMAIN objects
              THEN /\ queue' = rest
                   /\ UNCHANGED << visited, result_nodes, result_edges, has_more_upstream,
                                   has_more_downstream >>
              ELSE /\ result_nodes' = DictPut(result_nodes, current_id, objects[current_id])
                   /\ has_more_downstream' =
                          DictPut(has_more_downstream, current_id,
                                  AnyUnvisited(DictGet(forward_edges, current_id, {}), visited))
                   /\ has_more_upstream' =
                          DictPut(has_more_upstream, current_id,
                                  AnyUnvisited(DictGet(backward_edges, current_id, {}), visited))
                   /\ IF WithinDepth(current_depth, depth)
                      THEN \E order \in Orders(DictGet(edges_map, current_id, {})) :
                             LET st == ExpandNeighbors(
                                           [edges |-> result_edges, visited |-> visited,
                                            queue |-> rest],
                                           edge_map, direction, current_id, current_depth,
                                           order)
                             IN  /\ result_edges' = st.edges
                                 /\ visited' = st.visited
                                 /\ queue' = st.queue
                      ELSE /\ queue' = rest
                           /\ UNCHANGED << visited, result_edges >>
    /\ UNCHANGED << mergeVars, restVars, engineVars, pc, call, direction, depth, upstream, downstream, result >>

\* The LineageResult _traverse returns once its queue is empty.
TraverseResult ==
    LineageResult(result_nodes, result_edges, has_more_upstream, has_more_downstream)

(***************************************************************************)
(* get_forward_lineage / get_backward_lineage                              *)
(***************************************************************************)
get_forward_lineage ==
    /\ phase = "loaded"
    /\ pc \in {"idle", "done"}
    /\ \E object_id \in Ids, d \in Depths :
         /\ call' = [op |-> "forward", object_id |-> object_id, depth |-> d]
         /\ StartTraverse(object_id, d, "forward")
    /\ upstream' = NoResult
    /\ downstream' = NoResult
    /\ result' = NoResult
    /\ UNCHANGED << mergeVars, restVars, engineVars, mergeVars >>

get_backward_lineage ==
    /\ phase = "loaded"
    /\ pc \in {"idle", "done"}
    /\ \E object_id \in Ids, d \in Depths :
         /\ call' = [op |-> "backward", object_id |-> object_id, depth |-> d]
         /\ StartTraverse(object_id, d, "backward")
    /\ upstream' = NoResult
    /\ downstream' = NoResult
    /\ result' = NoResult
    /\ UNCHANGED << mergeVars, restVars, engineVars, mergeVars >>

\* _traverse returns to get_forward_lineage / get_backward_lineage, which
\* return its result unchanged.
DirectionalReturn ==
    /\ pc = "bfs"
    /\ queue = << >>
    /\ call.op \in {"forward", "backward"}
    /\ result' = TraverseResult
    /\ pc' = "done"
    /\ UNCHANGED << mergeVars, restVars, engineVars, call, direction, depth, queue, visited, result_nodes,
                    result_edges, has_more_upstream, has_more_downstream, dequeued,
                    upstream, downstream >>

(***************************************************************************)
(* get_full_lineage                                                        *)
(***************************************************************************)
\* A merge that concatenates the two edge lists without de-duplicating.
UniqueEdges_NoDedup(all_edges, seen_edges, unique_edges) == unique_edges \o all_edges

\* Lines 212-219: keep the first edge of every (source_id, target_id).
RECURSIVE UniqueEdges(_, _, _)
UniqueEdges(all_edges, seen_edges, unique_edges) ==
    IF all_edges = << >> THEN unique_edges
    ELSE LET edge == Head(all_edges)
             key == <<edge.source_id, edge.target_id>>
         IN  IF key \notin seen_edges
             THEN UniqueEdges(Tail(all_edges), seen_edges \cup {key},
                              Append(unique_edges, edge))
             ELSE UniqueEdges(Tail(all_edges), seen_edges, unique_edges)

\* Lines 206-230: the merge of the two directional results.
MergeLineage(object_id, objs, up, down) ==
    LET merged == DictMerge(up.nodes, down.nodes)
        all_nodes == IF object_id \in DOMAIN objs
                     THEN DictPut(merged, object_id, objs[object_id])
                     ELSE merged
    IN  LineageResult(
            all_nodes,
            UniqueEdges(up.edges \o down.edges, {}, << >>),
            DictMerge(up.has_more_upstream, down.has_more_upstream),
            DictMerge(up.has_more_downstream, down.has_more_downstream))

\* Line 201: the call enters get_backward_lineage first.
get_full_lineage ==
    /\ phase = "loaded"
    /\ pc \in {"idle", "done"}
    /\ \E object_id \in Ids, u \in Depths, d \in Depths :
         /\ call' = [op |-> "full", object_id |-> object_id, upstream_depth |-> u,
                     downstream_depth |-> d]
         /\ StartTraverse(object_id, u, "backward")
    /\ upstream' = NoResult
    /\ downstream' = NoResult
    /\ result' = NoResult
    /\ UNCHANGED << mergeVars, restVars, engineVars, mergeVars >>

\* Lines 201-204: the backward traversal has returned; the forward one starts
\* with locals of its own.
FullUpstreamReturn ==
    /\ pc = "bfs"
    /\ queue = << >>
    /\ call.op = "full"
    /\ direction = "backward"
    /\ upstream' = TraverseResult
    /\ StartTraverse(call.object_id, call.downstream_depth, "forward")
    /\ UNCHANGED << mergeVars, restVars, engineVars, call, downstream, result >>

\* Lines 204-230: the forward traversal has returned; merge and return.
FullDownstreamReturn ==
    /\ pc = "bfs"
    /\ queue = << >>
    /\ call.op = "full"
    /\ direction = "forward"
    /\ downstream' = TraverseResult
    /\ result' = MergeLineage(call.object_id, objects, upstream, TraverseResult)
    /\ pc' = "done"
    /\ UNCHANGED << mergeVars, restVars, engineVars, call, direction, depth, queue, visited, result_nodes,
                    result_edges, has_more_upstream, has_more_downstream, dequeued,
                    upstream >>

(***************************************************************************)
(* load_cache on a cache file in either container shape.                   *)
(***************************************************************************)
\* A cache file as json.load returns it: "objects" a dict or a list of the
\* same objects, "dependencies" a dict {table_level, column_level} or a flat
\* list of the same table-level dependencies.
CacheShapes ==
    { [objects_kind |-> ok, dependencies_kind |-> dk, data |-> c] :
        ok \in {"dict", "list"}, dk \in {"nested", "list"}, c \in Caches }

NoFile == [objects_kind |-> "none"]

\* load_cache(cache_data): line 73 calls .items() on "objects" and line 94
\* calls .get() on "dependencies"; a list has neither attribute, and the
\* engine keeps what was loaded before the exception.
load_cache_file(cache_file, ids) ==
    IF cache_file.objects_kind = "list"
    THEN [raised |-> "AttributeError", eng |-> NewEngine]
    ELSE LET eng1 == LoadObjects(NewEngine, cache_file.data.objects, ids)
         IN  IF cache_file.dependencies_kind = "list"
             THEN [raised |-> "AttributeError", eng |-> eng1]
             ELSE [raised |-> "", eng |-> LoadTableDeps(eng1, cache_file.data.table_level)]

LoadCacheFile ==
    /\ phase = "new"
    /\ \E cache_file \in CacheShapes :
         \E ids \in Orders(DOMAIN cache_file.data.objects) :
           LET out == load_cache_file(cache_file, ids)
           IN  /\ load_input' = cache_file
               /\ load_raised' = out.raised
               /\ phase' = IF out.raised = "" THEN "loaded" ELSE "failed"
               /\ objects' = out.eng.objects
               /\ forward_edges' = out.eng.forward_edges
               /\ backward_edges' = out.eng.backward_edges
               /\ table_deps' = out.eng.table_deps
               /\ by_schema' = out.eng.by_schema
               /\ by_type' = out.eng.by_type
               /\ edge_map' = out.eng.edge_map
    /\ UNCHANGED << mergeVars, pageVars, loaderVars, parserVars, moreVars, pc, call, direction, depth, queue,
                    visited, result_nodes, result_edges, has_more_upstream, has_more_downstream,
                    dequeued, upstream, downstream, result >>

(***************************************************************************)
(* get_objects_paginated and the list_objects route.                       *)
(***************************************************************************)
\* The pages a client walks through: 1 .. MaxPage.
MaxPage == 5

\* page_size: the route admits 1 .. 200.
PageSizes == {1, 2, 200}

\* The schema / type query parameters; None and "" are both falsy ("" here).
SchemaFilters == {"", "DWH", "RAW"}

TypeFilters == {"", "TABLE"}

\* Python orders strings by code point: "A" < "B" < "C" < "D".
IdRank(id) == CASE id = "A" -> 1 [] id = "B" -> 2 [] id = "C" -> 3 [] OTHER -> 4

\* list(candidates) followed by candidates.sort().
SortedIds(S) ==
    CHOOSE s \in Orders(S) : \A i, j \in DOMAIN s : i < j => IdRank(s[i]) < IdRank(s[j])

\* Lines 372-382: the candidate ids for the filters.
Candidates(schema_filter, type_filter) ==
    IF schema_filter # "" /\ type_filter # ""
    THEN DictGet(by_schema, schema_filter, {}) \cap DictGet(by_type, type_filter, {})
    ELSE IF schema_filter # "" THEN DictGet(by_schema, schema_filter, {})
    ELSE IF type_filter # "" THEN DictGet(by_type, type_filter, {})
    ELSE DOMAIN objects

\* A page that starts one page too far.
PageStart_NoOffset(page, page_size) == page * page_size

\* Line 388: start = (page - 1) * page_size.
PageStart(page, page_size) == (page - 1) * page_size

\* seq[start:end] of a Python list (0-based, clipped to the list).
Slice(seq, start, end) ==
    SubSeq(seq, start + 1, IF end < Len(seq) THEN end ELSE Len(seq))

\* get_objects_paginated: (items, total).
get_objects_paginated(page, page_size, schema_filter, type_filter) ==
    LET candidates == SortedIds(Candidates(schema_filter, type_filter))
        total == Len(candidates)
        start == PageStart(page, page_size)
        end == start + page_size
        ids == Slice(candidates, start, end)
    IN  [items |-> [i \in DOMAIN ids |-> objects[ids[i]]], total |-> total]

\* The ObjectListResponse of list_objects.
ObjectListResponse(page, page_size, schema_filter, type_filter) ==
    LET got == get_objects_paginated(page, page_size, schema_filter, type_filter)
    IN  [items |-> got.items, total |-> got.total, page |-> page, page_size |-> page_size,
         total_pages |-> (got.total + page_size - 1) \div page_size]

NoListing == [page |-> 0]

\* GET /objects: a client asks for page 1 under some filters and page size,
\* then for the following pages.  seen: the items of the pages so far.
list_objects ==
    /\ phase = "loaded"
    /\ \/ /\ listing = NoListing
          /\ \E page_size \in PageSizes, sf \in SchemaFilters, tf \in TypeFilters :
               listing' = [schema |-> sf, type |-> tf, seen |-> << >>]
                              @@ ObjectListResponse(1, page_size, sf, tf)
       \/ /\ listing # NoListing
          /\ listing.page < MaxPage
          /\ listing' = [schema |-> listing.schema, type |-> listing.type,
                         seen |-> listing.seen \o listing.items]
                            @@ ObjectListResponse(listing.page + 1, listing.page_size,
                                                  listing.schema, listing.type)
    /\ UNCHANGED << graphVars, mergeVars, shapeVars, loaderVars, parserVars, moreVars >>

(***************************************************************************)
(* cache_loader.py: CacheLoader behind get_graph_engine, main.py's         *)
(* lifespan, and the routes that take the engine as a dependency.          *)
(*                                                                         *)
(* get_graph_engine is a plain function, so FastAPI resolves it on a       *)
(* worker thread: calls of CacheLoader.load run concurrently, and nothing  *)
(* in CacheLoader takes a lock.  One step is one statement of the source.  *)
(***************************************************************************)
\* Requests and reload calls begun after startup.
MaxOps == 3

Threads == {"t1", "t2"}

\* The cache source holds no readable, valid cache ("missing": load raises
\* at lines 83-100), a cache whose dependencies are a flat list ("flat":
\* load_cache raises after its object loop), or version 1 or 2 of a cache
\* in the map / {table_level, column_level} shape.
Files == {"missing", "flat", "v1", "v2"}

FileObjects(f) == IF f = "v2" THEN {"A", "B"} ELSE {"A"}

\* len(table_level)
FileDeps(f) == IF f = "v2" THEN 2 ELSE 1

\* The object ids requests ask for.
RequestIds == {"A", "Z"}

\* LineageGraphEngine(): _objects and len(_table_deps).  src and stamp are
\* history: the cache the constructing load read, and the time that load
\* wrote to _loaded_at.
EmptyEngine(f) == [src |-> f, objects |-> {}, deps |-> 0, stamp |-> 0]

IdleThread ==
    [pc |-> "idle", op |-> "none", data |-> "none", mine |-> 0, target |-> 0, eng |-> 0,
     total_objects |-> 0, total_dependencies |-> 0]

\* Some load has run to line 105.
LoadSucceeded == \E i \in DOMAIN heap : heap[i].stamp # 0

\* A response; no_cache: no load had succeeded when it was sent.
Response(route, status, loaded_at, eng, total_objects, total_dependencies) ==
    [route |-> route, status |-> status, no_cache |-> ~LoadSucceeded,
     cache_loaded_at |-> loaded_at, engine |-> eng, total_objects |-> total_objects,
     total_dependencies |-> total_dependencies]

\* An exception leaves the call: a request answers 500 (no handler is
\* registered for it), a reload call returns to its caller.
Raise(t) ==
    /\ th' = [th EXCEPT ![t] = IdleThread]
    /\ responses' = IF th[t].op = "reload" THEN responses
                    ELSE responses \cup {Response(th[t].op, 500, 0, 0, 0, 0)}

\* main.py lifespan: cache_loader.load() before any request is served, every
\* exception caught and logged.
Lifespan ==
    /\ ~started
    /\ started' = TRUE
    /\ IF file = "missing"
       THEN UNCHANGED << ldr_engine, ldr_loaded_at, heap, clock >>
       ELSE /\ ldr_engine' = Len(heap) + 1
            /\ IF file = "flat"
               THEN /\ heap' = Append(heap, [EmptyEngine(file) EXCEPT
                                                 !.objects = FileObjects(file)])
                    /\ UNCHANGED << ldr_loaded_at, clock >>
               ELSE /\ heap' = Append(heap, [src |-> file, objects |-> FileObjects(file),
                                             deps |-> FileDeps(file), stamp |-> clock])
                    /\ ldr_loaded_at' = clock
                    /\ clock' = clock + 1
    /\ UNCHANGED << file, th, ops, responses, graphVars, mergeVars, shapeVars, pageVars, parserVars, moreVars >>

\* The extractors (or an operator) replace the cache at its source.
Publish ==
    /\ started
    /\ file # "v2"
    /\ file' = IF file = "v1" THEN "v2" ELSE "v1"
    /\ UNCHANGED << ldr_engine, ldr_loaded_at, heap, clock, started, th, ops, responses,
                    graphVars, mergeVars, shapeVars, pageVars, parserVars, moreVars >>

\* A request for GET /objects/{id} or GET /statistics arrives: FastAPI calls
\* get_graph_engine(), i.e. the engine property.
BeginRequest(t) ==
    /\ started
    /\ th[t].pc = "idle"
    /\ ops < MaxOps
    /\ \E op \in {"object", "statistics"} :
         th' = [th EXCEPT ![t] = [IdleThread EXCEPT !.pc = "engine_131", !.op = op]]
    /\ ops' = ops + 1
    /\ UNCHANGED << file, ldr_engine, ldr_loaded_at, heap, clock, started, responses,
                    graphVars, mergeVars, shapeVars, pageVars, parserVars, moreVars >>

\* CacheLoader.reload is called.
BeginReload(t) ==
    /\ started
    /\ th[t].pc = "idle"
    /\ ops < MaxOps
    /\ th' = [th EXCEPT ![t] = [IdleThread EXCEPT !.pc = "reload_124", !.op = "reload"]]
    /\ ops' = ops + 1
    /\ UNCHANGED << file, ldr_engine, ldr_loaded_at, heap, clock, started, responses,
                    graphVars, mergeVars, shapeVars, pageVars, parserVars, moreVars >>

\* reload, line 124: self._engine = None
Reload124(t) ==
    /\ th[t].pc = "reload_124"
    /\ ldr_engine' = 0
    /\ th' = [th EXCEPT ![t].pc = "reload_125"]
    /\ UNCHANGED << file, ldr_loaded_at, heap, clock, started, ops, responses,
                    graphVars, mergeVars, shapeVars, pageVars, parserVars, moreVars >>

\* reload, lines 125-126: self._loaded_at = None; return self.load(...)
Reload125(t) ==
    /\ th[t].pc = "reload_125"
    /\ ldr_loaded_at' = 0
    /\ th' = [th EXCEPT ![t].pc = "load_73"]
    /\ UNCHANGED << file, ldr_engine, heap, clock, started, ops, responses,
                    graphVars, mergeVars, shapeVars, pageVars, parserVars, moreVars >>

\* engine property, lines 131-132: if self._engine is None: return self.load()
Engine131(t) ==
    /\ th[t].pc = "engine_131"
    /\ th' = [th EXCEPT ![t].pc = IF ldr_engine = 0 THEN "load_73" ELSE "engine_133"]
    /\ UNCHANGED << file, ldr_engine, ldr_loaded_at, heap, clock, started, ops, responses,
                    graphVars, mergeVars, shapeVars, pageVars, parserVars, moreVars >>

\* engine property, line 133: return self._engine (None when a reload has
\* reset it since line 131; the route then fails on it).
Engine133(t) ==
    /\ th[t].pc = "engine_133"
    /\ IF ldr_engine = 0
       THEN Raise(t)
       ELSE /\ th' = [th EXCEPT ![t].pc = "endpoint", ![t].eng = ldr_engine]
            /\ UNCHANGED responses
    /\ UNCHANGED << file, ldr_engine, ldr_loaded_at, heap, clock, started, ops,
                    graphVars, mergeVars, shapeVars, pageVars, parserVars, moreVars >>

\* load returns value v to its caller: reload returns, the engine property
\* hands v to the route.
Return(t, v) ==
    th' = [th EXCEPT ![t] = IF th[t].op = "reload" THEN IdleThread
                            ELSE [th[t] EXCEPT !.pc = "endpoint", !.eng = v]]

\* load, lines 73-74: if self._engine is not None: return self._engine
Load73(t) ==
    /\ th[t].pc = "load_73"
    /\ IF ldr_engine # 0
       THEN Return(t, ldr_engine)
       ELSE th' = [th EXCEPT ![t].pc = "load_83"]
    /\ UNCHANGED << file, ldr_engine, ldr_loaded_at, heap, clock, started, ops, responses,
                    graphVars, mergeVars, shapeVars, pageVars, parserVars, moreVars >>

\* load, lines 83-100: fetch the cache and validate it.
Load83(t) ==
    /\ th[t].pc = "load_83"
    /\ IF file = "missing"
       THEN Raise(t)
       ELSE /\ th' = [th EXCEPT ![t].pc = "load_103", ![t].data = file]
            /\ UNCHANGED responses
    /\ UNCHANGED << file, ldr_engine, ldr_loaded_at, heap, clock, started, ops,
                    graphVars, mergeVars, shapeVars, pageVars, parserVars, moreVars >>

\* load, line 103: self._engine = LineageGraphEngine()
Load103(t) ==
    /\ th[t].pc = "load_103"
    /\ heap' = Append(heap, EmptyEngine(th[t].data))
    /\ ldr_engine' = Len(heap) + 1
    /\ th' = [th EXCEPT ![t].pc = "load_104", ![t].mine = Len(heap) + 1]
    /\ UNCHANGED << file, ldr_loaded_at, clock, started, ops, responses,
                    graphVars, mergeVars, shapeVars, pageVars, parserVars, moreVars >>

\* load, line 104: self._engine.load_cache(cache_data), up to the end of its
\* object loop (graph_engine.py lines 73-92).  The engine is the one the
\* handle names now.
Load104(t) ==
    /\ th[t].pc = "load_104"
    /\ IF ldr_engine = 0
       THEN Raise(t) /\ UNCHANGED heap
       ELSE /\ heap' = [heap EXCEPT ![ldr_engine].objects = @ \cup FileObjects(th[t].data)]
            /\ th' = [th EXCEPT ![t].pc = "load_cache_94", ![t].target = ldr_engine]
            /\ UNCHANGED responses
    /\ UNCHANGED << file, ldr_engine, ldr_loaded_at, clock, started, ops,
                    graphVars, mergeVars, shapeVars, pageVars, parserVars, moreVars >>

\* load_cache, graph_engine.py lines 94-111: the table-level loop appends
\* every dependency to _table_deps; deps.get raises on a flat list.
LoadCache94(t) ==
    /\ th[t].pc = "load_cache_94"
    /\ IF th[t].data = "flat"
       THEN Raise(t) /\ UNCHANGED heap
       ELSE /\ heap' = [heap EXCEPT ![th[t].target].deps = @ + FileDeps(th[t].data)]
            /\ th' = [th EXCEPT ![t].pc = "load_105"]
            /\ UNCHANGED responses
    /\ UNCHANGED << file, ldr_engine, ldr_loaded_at, clock, started, ops,
                    graphVars, mergeVars, shapeVars, pageVars, parserVars, moreVars >>

\* load, line 105: self._loaded_at = datetime.now().isoformat()
Load105(t) ==
    /\ th[t].pc = "load_105"
    /\ ldr_loaded_at' = clock
    /\ clock' = clock + 1
    /\ heap' = [heap EXCEPT ![th[t].mine].stamp = clock]
    /\ th' = [th EXCEPT ![t].pc = "load_107"]
    /\ UNCHANGED << file, ldr_engine, started, ops, responses,
                    graphVars, mergeVars, shapeVars, pageVars, parserVars, moreVars >>

\* load, lines 107-110: self._engine.get_statistics() for the log, then
\* return self._engine.
Load107(t) ==
    /\ th[t].pc = "load_107"
    /\ IF ldr_engine = 0
       THEN Raise(t)
       ELSE Return(t, ldr_engine) /\ UNCHANGED responses
    /\ UNCHANGED << file, ldr_engine, ldr_loaded_at, heap, clock, started, ops,
                    graphVars, mergeVars, shapeVars, pageVars, parserVars, moreVars >>

\* objects.py get_object: engine.get_object(object_id), 404 when it is None.
GetObject(t) ==
    /\ th[t].pc = "endpoint"
    /\ th[t].op = "object"
    /\ \E object_id \in RequestIds :
         responses' = responses \cup
             {Response("object",
                       IF object_id \in heap[th[t].eng].objects THEN 200 ELSE 404,
                       0, th[t].eng, 0, 0)}
    /\ th' = [th EXCEPT ![t] = IdleThread]
    /\ UNCHANGED << file, ldr_engine, ldr_loaded_at, heap, clock, started, ops,
                    graphVars, mergeVars, shapeVars, pageVars, parserVars, moreVars >>

\* search.py get_statistics, line 72: stats = engine.get_statistics()
Stats72(t) ==
    /\ th[t].pc = "endpoint"
    /\ th[t].op = "statistics"
    /\ th' = [th EXCEPT ![t].pc = "stats_84",
                        ![t].total_objects = Cardinality(heap[th[t].eng].objects),
                        ![t].total_dependencies = heap[th[t].eng].deps]
    /\ UNCHANGED << file, ldr_engine, ldr_loaded_at, heap, clock, started, ops, responses,
                    graphVars, mergeVars, shapeVars, pageVars, parserVars, moreVars >>

\* search.py get_statistics, lines 73-85: the response, with
\* cache_loaded_at = cache_loader.loaded_at.
Stats84(t) ==
    /\ th[t].pc = "stats_84"
    /\ responses' = responses \cup
           {Response("statistics", 200, ldr_loaded_at, th[t].eng, th[t].total_objects,
                     th[t].total_dependencies)}
    /\ th' = [th EXCEPT ![t] = IdleThread]
    /\ UNCHANGED << file, ldr_engine, ldr_loaded_at, heap, clock, started, ops,
                    graphVars, mergeVars, shapeVars, pageVars, parserVars, moreVars >>

\* The process before lifespan runs.
LoaderStart ==
    /\ file \in {"missing", "flat", "v1"}
    /\ ldr_engine = 0
    /\ ldr_loaded_at = 0
    /\ heap = << >>
    /\ clock = 1
    /\ started = FALSE
    /\ th = [t \in Threads |-> IdleThread]
    /\ ops = 0
    /\ responses = {}

LoaderIdle == LoaderStart /\ file = "missing"

(***************************************************************************)
(* scripts/script_parser.py: SQLParser, LuaScriptParser, parse_script, and *)
(* the extractor's _parse_script_dependencies (extract_from_exasol.py).    *)
(*                                                                         *)
(* A SQL statement is given by its syntax: an optional CTE declaration     *)
(* "WITH c AS (SELECT * FROM s)", the statement kind, the target of an     *)
(* INSERT INTO / CREATE TABLE ... AS, the FROM table and an optional       *)
(* JOIN table.  The AST path sees the statement as sqlglot's tree (each    *)
(* Table node with the node classes above it); the fallback path sees its  *)
(* text, as a sequence of tokens.  An id "SCHEMA.NAME" is the pair         *)
(* [schema, name]; a missing schema (None) is "".                          *)
(***************************************************************************)
Table(s, n) == [schema |-> s, name |-> n]

NoTable == Table("", "")

\* The tables a statement may name: real tables, a name that is also declared
\* as a CTE, a function name, the keyword DUAL, a variable-like name and an
\* @-variable.
TablePool ==
    { Table("DWH", "T"), Table("DWH", "S"), Table("", "c"),
      Table("", "sum"), Table("DWH", "dual"), Table("", "v_x"), Table("", "@p") }

TargetPool == { Table("DWH", "T"), Table("DWH", "S"), Table("", "v_x") }

CteNames == {"", "c"}

\* The table the body of the declared CTE reads.
CteSource == Table("DWH", "S")

Statements ==
    { [kind |-> "SELECT", target |-> NoTable, cte |-> c, from |-> f, join |-> j] :
        c \in CteNames, f \in TablePool, j \in TablePool \cup {NoTable} }
    \cup
    { [kind |-> k, target |-> t, cte |-> c, from |-> f, join |-> j] :
        k \in {"INSERT", "CREATE"}, t \in TargetPool, c \in CteNames,
        f \in TablePool, j \in TablePool \cup {NoTable} }

NoStatement == [kind |-> "none"]

\* str.upper() on the names and schemas of the pool.
Upper(s) ==
    CASE s = "c" -> "C"
      [] s = "sum" -> "SUM"
      [] s = "dual" -> "DUAL"
      [] s = "v_x" -> "V_X"
      [] s = "@p" -> "@P"
      [] OTHER -> s

\* The members of the class constants that the pool's names can hit.
SQL_FUNCTIONS == {"SUM", "COUNT"}

SQL_KEYWORDS == {"DUAL", "TABLE"}

\* name_upper.startswith(VARIABLE_PREFIXES), VARIABLE_PREFIXES = ('V_', 'P_', ...).
StartsWithVariablePrefix(name_upper) == name_upper \in {"V_X"}

\* name.startswith('@')
StartsWithAt(name) == name \in {"@p", "@P"}

\* The mutant drops the keyword test.
is_valid_table_name_NoKeywords(name, schema, req) ==
    /\ Upper(name) \notin SQL_FUNCTIONS
    /\ ~StartsWithVariablePrefix(Upper(name))
    /\ ~StartsWithAt(name)
    /\ ~(req /\ schema = "")

is_valid_table_name(name, schema, req) ==
    /\ Upper(name) \notin SQL_FUNCTIONS
    /\ Upper(name) \notin SQL_KEYWORDS
    /\ ~StartsWithVariablePrefix(Upper(name))
    /\ ~StartsWithAt(name)
    /\ ~(req /\ schema = "")

TableReference(schema, name, reference_type) ==
    [schema |-> schema, name |-> name, reference_type |-> reference_type]

RECURSIVE deduplicate(_, _)
\* _deduplicate: the first reference of each (schema, name) is kept.
deduplicate(refs, seen) ==
    IF refs = << >> THEN << >>
    ELSE LET ref == Head(refs)
             key == << ref.schema, ref.name >>
         IN IF key \in seen THEN deduplicate(Tail(refs), seen)
            ELSE << ref >> \o deduplicate(Tail(refs), seen \cup {key})

\* sqlglot's tree: the node classes above every Table node of the statement.
DmlAncestors(stmt) ==
    CASE stmt.kind = "INSERT" -> {"Insert"}
      [] stmt.kind = "CREATE" -> {"Create"}
      [] OTHER -> {}

TableNodes(stmt) ==
    (IF stmt.kind = "SELECT" THEN {}
     ELSE {[table |-> stmt.target, ancestors |-> DmlAncestors(stmt)]})
    \cup (IF stmt.cte = "" THEN {}
          ELSE {[table |-> CteSource,
                 ancestors |-> {"CTE", "Select"} \cup DmlAncestors(stmt)]})
    \cup {[table |-> stmt.from, ancestors |-> {"Select"} \cup DmlAncestors(stmt)]}
    \cup (IF stmt.join = NoTable THEN {}
          ELSE {[table |-> stmt.join,
                 ancestors |-> {"Join", "Select"} \cup DmlAncestors(stmt)]})

\* statement.find_all(exp.CTE), with cte.alias.upper()
CteAliases(stmt) == IF stmt.cte = "" THEN {} ELSE {Upper(stmt.cte)}

get_reference_type(table_node) ==
    CASE "Insert" \in table_node.ancestors -> "INSERT"
      [] "Update" \in table_node.ancestors -> "UPDATE"
      [] "Delete" \in table_node.ancestors -> "DELETE"
      [] "Merge" \in table_node.ancestors -> "MERGE"
      [] "Create" \in table_node.ancestors /\ "Select" \notin table_node.ancestors -> "DDL"
      [] "Drop" \in table_node.ancestors -> "DDL"
      [] "Join" \in table_node.ancestors -> "JOIN"
      [] OTHER -> "SELECT"

RECURSIVE AstReferences(_, _, _)
\* The loop over statement.find_all(exp.Table); nodes is the order of the walk.
AstReferences(nodes, cte_names, req) ==
    IF nodes = << >> THEN << >>
    ELSE LET table_node == Head(nodes)
             table_name == table_node.table.name
             schema_name == table_node.table.schema
             rest == AstReferences(Tail(nodes), cte_names, req)
         IN IF Upper(table_name) \in cte_names THEN rest
            ELSE IF ~is_valid_table_name(table_name, schema_name, req) THEN rest
            ELSE << TableReference(Upper(schema_name), Upper(table_name),
                                   get_reference_type(table_node)) >> \o rest

\* The text of the statement, word by word: a keyword, or a table name.
Kw(k) == [kw |-> k, table |-> NoTable]

Ident(t) == [kw |-> "", table |-> t]

Text(stmt) ==
    (CASE stmt.kind = "INSERT" -> << Kw("INSERT"), Kw("INTO"), Ident(stmt.target) >>
       [] stmt.kind = "CREATE" -> << Kw("CREATE"), Kw("TABLE"), Ident(stmt.target), Kw("AS") >>
       [] OTHER -> << >>)
    \o (IF stmt.cte = "" THEN << >>
        ELSE << Kw("WITH"), Ident(Table("", stmt.cte)), Kw("AS"), Kw("("), Kw("SELECT"),
                Kw("*"), Kw("FROM"), Ident(CteSource), Kw(")") >>)
    \o << Kw("SELECT"), Kw("*"), Kw("FROM"), Ident(stmt.from) >>
    \o (IF stmt.join = NoTable THEN << >> ELSE << Kw("JOIN"), Ident(stmt.join) >>)

\* _fallback_parse's patterns, in its order: the keywords, then one captured
\* name [A-Za-z_][A-Za-z0-9_]*, optionally schema-qualified.
Patterns ==
    << [keywords |-> << "CREATE", "TABLE" >>, reference_type |-> "DDL"],
       [keywords |-> << "FROM" >>, reference_type |-> "SELECT"],
       [keywords |-> << "JOIN" >>, reference_type |-> "JOIN"],
       [keywords |-> << "INTO" >>, reference_type |-> "INSERT"],
       [keywords |-> << "UPDATE" >>, reference_type |-> "UPDATE"],
       [keywords |-> << "MERGE", "INTO" >>, reference_type |-> "MERGE"],
       [keywords |-> << "DELETE", "FROM" >>, reference_type |-> "DELETE"],
       [keywords |-> << "TRUNCATE", "TABLE" >>, reference_type |-> "DDL"],
       [keywords |-> << "DROP", "TABLE" >>, reference_type |-> "DDL"] >>

\* The name pattern starts with a letter or an underscore.
IsIdentifier(name) == ~StartsWithAt(name)

MatchAt(tokens, keywords, i) ==
    /\ i + Len(keywords) <= Len(tokens)
    /\ \A k \in 1..Len(keywords) : tokens[i + k - 1].kw = keywords[k]
    /\ tokens[i + Len(keywords)].kw = ""
    /\ IsIdentifier(tokens[i + Len(keywords)].table.name)

RECURSIVE PatternMatches(_, _, _)
\* re.finditer(pattern, sql): the matches from position i on, in text order,
\* each as the reference built from table_ref.upper().split('.').
PatternMatches(tokens, pattern, i) ==
    IF i > Len(tokens) THEN << >>
    ELSE (IF MatchAt(tokens, pattern.keywords, i)
          THEN LET t == tokens[i + Len(pattern.keywords)].table
               IN << TableReference(Upper(t.schema), Upper(t.name), pattern.reference_type) >>
          ELSE << >>)
         \o PatternMatches(tokens, pattern, i + 1)

RECURSIVE FallbackMatches(_, _)
FallbackMatches(tokens, patterns) ==
    IF patterns = << >> THEN << >>
    ELSE PatternMatches(tokens, Head(patterns), 1) \o FallbackMatches(tokens, Tail(patterns))

fallback_parse(stmt, req) ==
    deduplicate(SelectSeq(FallbackMatches(Text(stmt), Patterns),
                          LAMBDA ref : is_valid_table_name(ref.name, ref.schema, req)), {})

\* SQLParser.parse; nodes is the order in which find_all yields the tables.
parse(stmt, req, sqlglot, nodes) ==
    IF ~sqlglot THEN fallback_parse(stmt, req)
    ELSE deduplicate(AstReferences(nodes, CteAliases(stmt), req), {})

\* The extractor's objects: the tables and the UDF itself.
UdfId == Table("ETL", "FN_PROC")

KnownObjects == { Table("DWH", "T"), Table("DWH", "S"), Table("DWH", "C"), UdfId }

\* "for obj_id in known_objects: if obj_id.endswith('.' + name)"; the names of
\* KnownObjects are distinct, so the first match is the only one.
ByName(name) == {obj \in KnownObjects : obj.name = name}

RECURSIVE Validate(_)
\* parse_script's validation against known_objects.
Validate(refs) ==
    IF refs = << >> THEN << >>
    ELSE LET ref == Head(refs)
             rest == Validate(Tail(refs))
         IN IF ref.schema # "" /\ Table(ref.schema, ref.name) \in KnownObjects
            THEN << ref >> \o rest
            ELSE IF ref.schema # "" /\ ref.reference_type = "DDL"
            THEN << ref >> \o rest
            ELSE IF ByName(ref.name) # {}
            THEN << TableReference((CHOOSE obj \in ByName(ref.name) : TRUE).schema,
                                   ref.name, ref.reference_type) >> \o rest
            ELSE IF ref.reference_type = "DDL" THEN << ref >> \o rest
            ELSE rest

\* parse_script(script_text, "LUA", known_objects) for a script whose one SQL
\* string is stmt: LuaScriptParser parses it with SQLParser() (require_schema
\* False) and removes duplicates once more.
parse_script(stmt, sqlglot, nodes) ==
    Validate(deduplicate(parse(stmt, FALSE, sqlglot, nodes), {}))

RECURSIVE ScriptDependencies(_, _)
\* The loop of _parse_script_dependencies over the references.
ScriptDependencies(script_id, refs) ==
    IF refs = << >> THEN << >>
    ELSE LET ref == Head(refs)
             rest == ScriptDependencies(script_id, Tail(refs))
             full_id == Table(ref.schema, ref.name)
         IN IF full_id \notin KnownObjects /\ ByName(ref.name) = {} THEN rest
            ELSE LET table_id == IF full_id \in KnownObjects THEN full_id
                                 ELSE CHOOSE obj \in ByName(ref.name) : TRUE
                 IN IF ref.reference_type \in {"INSERT", "UPDATE", "DELETE", "MERGE"}
                    THEN << [source_id |-> script_id, target_id |-> table_id,
                             dependency_type |-> "UDF_OUTPUT",
                             reference_type |-> ref.reference_type] >> \o rest
                    ELSE << [source_id |-> table_id, target_id |-> script_id,
                             dependency_type |-> "UDF_INPUT",
                             reference_type |-> ref.reference_type] >> \o rest

NotParsed == [returned |-> FALSE, refs |-> << >>]

NotExtracted == [returned |-> FALSE, deps |-> << >>]

\* The known_objects sets tried: none, ids "SCHEMA.NAME", and ids with a third
\* part in front.  An id is the sequence of its dot-separated parts.
KnownSets ==
    { {}, { << "DWH", "T" >>, << "DWH", "S" >> }, { << "PROJ", "DWH", "T" >>, << "DWH", "S" >> } }

\* obj_id.endswith("." + name)
EndsWithName(obj_id, name) == Len(obj_id) >= 2 /\ obj_id[Len(obj_id)] = name

RECURSIVE ValidateAgainst(_, _)
\* parse_script, lines 630-671: the loop over refs; known is known_objects in
\* the order the set is iterated.
ValidateAgainst(refs, known) ==
    IF refs = << >> THEN << >>
    ELSE LET ref == Head(refs)
             rest == ValidateAgainst(Tail(refs), known)
             hits == {i \in DOMAIN known : EndsWithName(known[i], ref.name)}
         IN IF ref.schema # "" /\ << ref.schema, ref.name >> \in Range(known)
            THEN << ref >> \o rest
            ELSE IF ref.schema # "" /\ ref.reference_type = "DDL"
            THEN << ref >> \o rest
            ELSE IF hits # {}
            THEN << TableReference(known[CHOOSE i \in hits : \A j \in hits : i <= j][1],
                                   ref.name, ref.reference_type) >> \o rest
            ELSE IF ref.reference_type = "DDL" THEN << ref >> \o rest
            ELSE rest

NotValidated == [returned |-> FALSE, known |-> {}, extracted |-> << >>, refs |-> << >>]

\* One call is made on an input: the calls are pure functions of it.
NothingReturned == ~references.returned /\ ~udf_deps.returned /\ ~validated.returned

\* parse_script(sql, "SQL", known_objects): SQLParser().parse, then the
\* validation when known_objects is not empty ("if known_objects:").
ParseScript ==
    /\ sql # NoStatement
    /\ NothingReturned
    /\ \E nodes \in Orders(TableNodes(sql)), known_objects \in KnownSets :
          \E known \in Orders(known_objects) :
             LET refs == parse(sql, FALSE, has_sqlglot, nodes)
             IN validated' = [returned |-> TRUE, known |-> known_objects, extracted |-> refs,
                              refs |-> IF known_objects = {} THEN refs
                                       ELSE ValidateAgainst(refs, known)]
    /\ UNCHANGED << sql, has_sqlglot, require_schema, references, udf_deps, sql_more,
                    graphVars, mergeVars, shapeVars, pageVars, loaderVars, moreVars >>

\* The statements that may follow the first one: a read of a base table.
MoreStatements ==
    { [kind |-> "SELECT", target |-> NoTable, cte |-> "", from |-> f, join |-> NoTable] :
        f \in {Table("", "c"), Table("DWH", "c"), Table("DWH", "T")} }

\* SQLParser.parse on an input of two statements "first; second".  On the AST
\* path cte_names is created once, before the loop over the statements (line
\* 196), and every statement adds to it; the fallback path matches the whole
\* text.
parse_statements(first, second, req, sqlglot, nodes, more_nodes) ==
    IF ~sqlglot
    THEN deduplicate(SelectSeq(FallbackMatches(Text(first) \o << Kw(";") >> \o Text(second),
                                               Patterns),
                               LAMBDA ref : is_valid_table_name(ref.name, ref.schema, req)), {})
    ELSE deduplicate(AstReferences(nodes, CteAliases(first), req)
                     \o AstReferences(more_nodes,
                                      CteAliases(first) \cup CteAliases(second), req), {})

\* SQLParser(require_schema=...).parse(sql), sql followed by sql_more.
ParseSql ==
    /\ sql # NoStatement
    /\ NothingReturned
    /\ \E nodes \in Orders(TableNodes(sql)) :
          IF sql_more = << >>
          THEN references' = [returned |-> TRUE,
                              refs |-> parse(sql, require_schema, has_sqlglot, nodes)]
          ELSE \E more_nodes \in Orders(TableNodes(sql_more[1])) :
                  references' = [returned |-> TRUE,
                                 refs |-> parse_statements(sql, sql_more[1], require_schema,
                                                           has_sqlglot, nodes, more_nodes)]
    /\ UNCHANGED << sql, has_sqlglot, require_schema, udf_deps, sql_more, validated,
                    graphVars, mergeVars, shapeVars, pageVars, loaderVars, moreVars >>

\* _parse_script_dependencies(UdfId, script_text, "LUA") for the UDF whose
\* script runs query(sql).
ParseScriptDependencies ==
    /\ sql # NoStatement
    /\ NothingReturned
    /\ \E nodes \in Orders(TableNodes(sql)) :
          udf_deps' = [returned |-> TRUE,
                       deps |-> ScriptDependencies(UdfId, parse_script(sql, has_sqlglot, nodes))]
    /\ UNCHANGED << sql, has_sqlglot, require_schema, references, sql_more, validated,
                    graphVars, mergeVars, shapeVars, pageVars, loaderVars, moreVars >>

ParserIdle ==
    /\ sql = NoStatement
    /\ has_sqlglot = FALSE
    /\ require_schema = FALSE
    /\ references = NotParsed
    /\ udf_deps = NotExtracted
    /\ sql_more = << >>
    /\ validated = NotValidated

\* A UDF script with one SQL statement, under either build of the parser.
ParserStart ==
    /\ sql \in Statements
    /\ has_sqlglot \in BOOLEAN
    /\ require_schema \in BOOLEAN
    /\ references = NotParsed
    /\ udf_deps = NotExtracted
    /\ sql_more = << >>
    /\ validated = NotValidated

(***************************************************************************)
(* merge_caches.py: cache files.                                           *)
(*                                                                         *)
(* A missing key, None, 0 and "" are all falsy for the merger's            *)
(* "x.get(k) or ..." chains: an absent or falsy field is "".  A numeric    *)
(* object_id is written "#n": as a dict key it never equals a string id.   *)
(***************************************************************************)
Absent == ""

MergeIds == {"a", "b"}

Tags == {Absent, "#1"}

\* The objects a cache file may list: an id, and a numeric object_id tag or
\* none.
MergeObjs == [id : MergeIds, object_id : Tags]

\* "objects" as a map keyed by id, every id at most once, or as a sequence.
ObjContainers ==
    { Container("dict", [i \in K |-> [id |-> i, object_id |-> t[i]]]) :
        K \in SUBSET MergeIds, t \in [MergeIds -> Tags] }
    \cup { Container("list", l) : l \in SeqsUpTo(MergeObjs, MaxMergeObjs) }

MergeDep(soid, sid, src, toid, tid, tgt, dt, rt) ==
    [source_object_id |-> soid, source_id |-> sid, source |-> src,
     target_object_id |-> toid, target_id |-> tid, target |-> tgt,
     dependency_type |-> dt, reference_type |-> rt]

\* The dependencies a cache file may list, in the three historical spellings
\* of the endpoints: source_id/target_id, the same with the
\* source_object_id/target_object_id copies the GitHub extractor adds, and
\* source/target.
MergeDepPool ==
    { MergeDep(Absent, "a", Absent, Absent, "b", Absent, "VIEW", "SELECT"),
      MergeDep("a", "a", Absent, "b", "b", Absent, "DATA", Absent),
      MergeDep(Absent, "b", Absent, Absent, "a", Absent, "DATA", "INSERT"),
      MergeDep(Absent, Absent, "b", Absent, Absent, "a", "ETL", "SELECT") }

\* "dependencies" as a flat sequence, as {table_level, column_level}, or as
\* a map of dependencies without a table_level key (items: its values).
DepContainers ==
    { [kind |-> k, items |-> l, column_level |-> << >>] :
        k \in {"list", "nested", "keyed"}, l \in SeqsUpTo(MergeDepPool, MaxMergeDeps) }

ColumnDep(soid, sc, toid, tc) ==
    [source_object_id |-> soid, source_column |-> sc,
     target_object_id |-> toid, target_column |-> tc]

\* Caches in the {table_level, column_level} shape that hold column-level
\* dependencies.
ColumnContainers ==
    { [kind |-> "nested",
       items |-> << MergeDep(Absent, "a", Absent, Absent, "b", Absent, "VIEW", "SELECT") >>,
       column_level |-> cl] :
        cl \in { << ColumnDep("a", "x", "b", "y") >>, << ColumnDep("a", "z", "b", "y") >>,
                 << ColumnDep("a", "x", "b", "y"), ColumnDep("b", "y", "a", "x") >> } }

CacheFile(objs, deps) ==
    [metadata |-> [stats |-> IF objs.kind = "list" THEN "github" ELSE Absent,
                   merged_at |-> Absent, github_stats |-> Absent],
     objects |-> objs, dependencies |-> deps]

DefaultObjs ==
    Container("dict", [i \in {"a"} |-> [id |-> i, object_id |-> "#1"]])

DefaultDeps ==
    [kind |-> "nested",
     items |-> << MergeDep(Absent, "a", Absent, Absent, "b", Absent, "VIEW", "SELECT") >>,
     column_level |-> << >>]

\* The cache files tried: every objects container with one dependency
\* container, and every dependency container with one objects container.
CacheFiles ==
    { CacheFile(o, DefaultDeps) : o \in ObjContainers }
    \cup { CacheFile(DefaultObjs, d) : d \in DepContainers }
    \cup { CacheFile(DefaultObjs, d) : d \in ColumnContainers }

NoCache == CacheFile(Container("dict", EmptyDict),
                     [kind |-> "list", items |-> << >>, column_level |-> << >>])

NoMerge == [of |-> "none", cache |-> NoCache, added_objects |-> 0, added_deps |-> 0]

(***************************************************************************)
(* merge_caches.py: normalize_objects, get_deps_list, get_dep_key,         *)
(* merge_caches                                                            *)
(***************************************************************************)
\* a or b
Or(a, b) == IF a # Absent THEN a ELSE b

\* The loop of normalize_objects over a list: result[key] = obj, where
\* key = obj.get("object_id") or obj.get("id").
RECURSIVE NormalizeList(_, _)
NormalizeList(objs, normalized) ==
    IF objs = << >> THEN normalized
    ELSE LET obj == Head(objs)
             key == Or(obj.object_id, obj.id)
         IN  NormalizeList(Tail(objs),
                           IF key # Absent THEN DictPut(normalized, key, obj)
                           ELSE normalized)

normalize_objects(objs) ==
    IF objs.kind = "list" THEN NormalizeList(objs.items, EmptyDict) ELSE objs.items

get_deps_list(deps) == deps.items

\* (source, target), or << >> for None.
get_dep_key(dep) ==
    LET source == Or(dep.source_object_id, Or(dep.source_id, dep.source))
        target == Or(dep.target_object_id, Or(dep.target_id, dep.target))
    IN  IF source # Absent /\ target # Absent THEN <<source, target>> ELSE << >>

\* Lines 58-61: insert the new objects whose key the base does not hold.  The
\* keys of new_objects are distinct, so the loop's order does not matter.
MergeObjects(base_objects, new_objects) ==
    [k \in (DOMAIN base_objects) \cup (DOMAIN new_objects) |->
        IF k \in DOMAIN base_objects THEN base_objects[k] ELSE new_objects[k]]

\* Lines 68-72: the keys of the base dependencies.
ExistingDeps(base_deps_list) ==
    {get_dep_key(base_deps_list[i]) : i \in DOMAIN base_deps_list} \ {<< >>}

\* A merge loop that forgets to record the keys it appends.
RECURSIVE MergeDeps_NoRecord(_, _, _)
MergeDeps_NoRecord(base_deps_list, existing_deps, new_deps_list) ==
    IF new_deps_list = << >> THEN base_deps_list
    ELSE LET dep == Head(new_deps_list)
             key == get_dep_key(dep)
         IN  IF key # << >> /\ key \notin existing_deps
             THEN MergeDeps_NoRecord(Append(base_deps_list, dep), existing_deps,
                                     Tail(new_deps_list))
             ELSE MergeDeps_NoRecord(base_deps_list, existing_deps, Tail(new_deps_list))

\* Lines 76-81: append the new dependencies whose key is not yet present.
RECURSIVE MergeDeps(_, _, _)
MergeDeps(base_deps_list, existing_deps, new_deps_list) ==
    IF new_deps_list = << >> THEN base_deps_list
    ELSE LET dep == Head(new_deps_list)
             key == get_dep_key(dep)
         IN  IF key # << >> /\ key \notin existing_deps
             THEN MergeDeps(Append(base_deps_list, dep), existing_deps \cup {key},
                            Tail(new_deps_list))
             ELSE MergeDeps(base_deps_list, existing_deps, Tail(new_deps_list))

\* merge_caches(base, new): the merged cache and the two counters.
merge_caches(base, new) ==
    LET base_objects == normalize_objects(base.objects)
        new_objects == normalize_objects(new.objects)
        merged_objects == MergeObjects(base_objects, new_objects)
        base_deps_list == get_deps_list(base.dependencies)
        new_deps_list == get_deps_list(new.dependencies)
        merged_deps == MergeDeps(base_deps_list, ExistingDeps(base_deps_list), new_deps_list)
    IN  [cache |->
            [metadata |-> [stats |-> base.metadata.stats,
                           merged_at |-> "now",
                           github_stats |-> IF new.metadata.stats # Absent
                                            THEN new.metadata.stats
                                            ELSE base.metadata.github_stats],
             objects |-> Container("dict", merged_objects),
             dependencies |->
                 IF base.dependencies.kind = "nested"
                 THEN [base.dependencies EXCEPT !.items = merged_deps]
                 ELSE [kind |-> "list", items |-> merged_deps, column_level |-> << >>]],
         added_objects |-> Cardinality(DOMAIN merged_objects) - Cardinality(DOMAIN base_objects),
         added_deps |-> Len(merged_deps) - Len(base_deps_list)]

\* main(): merge cacheB into cacheA and write the output, cacheC.
MergeAB ==
    /\ mpc = "input"
    /\ cacheC' = merge_caches(cacheA, cacheB).cache
    /\ remerged' = merge_caches(cacheA, cacheB) @@ [of |-> "AB"]
    /\ mpc' = "merged"
    /\ UNCHANGED << cacheA, cacheB, graphVars, restVars >>

\* main(): merge cacheA into itself.
MergeAA ==
    /\ mpc = "input"
    /\ remerged' = merge_caches(cacheA, cacheA) @@ [of |-> "AA"]
    /\ mpc' = "remerged"
    /\ UNCHANGED << cacheA, cacheB, cacheC, graphVars, restVars >>

\* main(): merge cacheB once more into the output of MergeAB.
MergeCB ==
    /\ mpc = "merged"
    /\ remerged' = merge_caches(cacheC, cacheB) @@ [of |-> "CB"]
    /\ mpc' = "remerged"
    /\ UNCHANGED << cacheA, cacheB, cacheC, graphVars, restVars >>

\* main(): merge cacheA once more into the output of MergeAB.
MergeCA ==
    /\ mpc = "merged"
    /\ remerged' = merge_caches(cacheC, cacheA) @@ [of |-> "CA"]
    /\ mpc' = "remerged"
    /\ UNCHANGED << cacheA, cacheB, cacheC, graphVars, restVars >>

(***************************************************************************)
(* Column-level lineage of the graph engine (graph_engine.py).  A string  *)
(* that is joined or split on ':' is the sequence of its ':'-free parts:  *)
(* "bigquery:p.d.t" is << "bigquery", "p.d.t" >>, "A" is << "A" >> and    *)
(* the empty string is << "" >>.                                          *)
(***************************************************************************)
MaxColumnDeps == 3

MaxColumnDepth == 3

\* f"{object_id}:{column_name}"
column_key(object_id, column_name) == object_id \o column_name

\* parts = key.split(":", 1); parts[0] and parts[1] if len(parts) > 1 else ""
SplitKey(key) ==
    [object_id |-> << Head(key) >>,
     column |-> IF Len(key) > 1 THEN Tail(key) ELSE << "" >>]

ColumnLevelDependency(soid, sc, toid, tc, tr, tt) ==
    [source_object_id |-> soid, source_column |-> sc,
     target_object_id |-> toid, target_column |-> tc,
     transformation |-> tr, transformation_type |-> tt]

ColA == << "A" >>

ColB == << "B" >>

ColBq == << "bigquery", "p.d.t" >>

\* The column_level rows a cache may hold: a chain bigquery:p.d.t.x -> A.x
\* -> B.y, the edge back B.y -> A.x that closes a cycle, a column that
\* feeds itself, and a second row for A.x -> B.y.
ColumnDepPool ==
    { ColumnLevelDependency(ColBq, << "x" >>, ColA, << "x" >>, Absent, "DIRECT"),
      ColumnLevelDependency(ColA, << "x" >>, ColB, << "y" >>, "SUM(x)", "AGGREGATE"),
      ColumnLevelDependency(ColB, << "y" >>, ColA, << "x" >>, Absent, "DIRECT"),
      ColumnLevelDependency(ColA, << "x" >>, ColA, << "x" >>, "x + 1", "EXPRESSION"),
      ColumnLevelDependency(ColA, << "x" >>, ColB, << "y" >>, Absent, "DIRECT") }

ColumnPool ==
    { << ColA, << "x" >> >>, << ColB, << "y" >> >>, << ColBq, << "x" >> >>,
      << ColB, << "x" >> >> }

source_key(col_dep) == column_key(col_dep.source_object_id, col_dep.source_column)

target_key(col_dep) == column_key(col_dep.target_object_id, col_dep.target_column)

\* _column_forward_edges after load_cache's loop over column_level.
ColumnForwardEdges(deps) ==
    [k \in {source_key(deps[i]) : i \in DOMAIN deps} |->
        {target_key(deps[i]) : i \in {j \in DOMAIN deps : source_key(deps[j]) = k}}]

\* _column_backward_edges after the loop.
ColumnBackwardEdges(deps) ==
    [k \in {target_key(deps[i]) : i \in DOMAIN deps} |->
        {source_key(deps[i]) : i \in {j \in DOMAIN deps : target_key(deps[j]) = k}}]

\* _column_edge_map after the loop: a later row replaces an earlier one of
\* the same key pair.
ColumnEdgeMap(deps) ==
    [e \in {<< source_key(deps[i]), target_key(deps[i]) >> : i \in DOMAIN deps} |->
        LET rows == {i \in DOMAIN deps : << source_key(deps[i]), target_key(deps[i]) >> = e}
        IN deps[CHOOSE i \in rows : \A j \in rows : j <= i]]

\* edges_map.get(current_key, set())
ColumnNeighbors(edges_map, current_key) ==
    IF current_key \in DOMAIN edges_map THEN edges_map[current_key] ELSE {}

\* The edges_map _traverse_column_lineage selects for its direction.
ColumnEdges(dir) ==
    IF dir = "forward" THEN ColumnForwardEdges(column_deps)
    ELSE ColumnBackwardEdges(column_deps)

\* None as the value of _column_edge_map.get(edge_key)
NoColumnDep == [found |-> FALSE]

\* _column_edge_map.get(edge_key)
ColumnEdgeDep(dir, current_key, neighbor_key) ==
    LET edge_key == IF dir = "forward" THEN << current_key, neighbor_key >>
                    ELSE << neighbor_key, current_key >>
        edges == ColumnEdgeMap(column_deps)
    IN IF edge_key \in DOMAIN edges THEN edges[edge_key] ELSE NoColumnDep

\* The loop over the neighbors of current_key in _traverse_column_lineage:
\* seen is visited, found is results, pending is the deque.
RECURSIVE ExpandColumnNeighbors_NoVisitedCheck(_, _, _, _, _, _, _)
ExpandColumnNeighbors_NoVisitedCheck(order, dir, current_key, current_depth, seen, found, pending) ==
    IF order = << >> THEN [visited |-> seen, results |-> found, queue |-> pending]
    ELSE LET neighbor_key == Head(order)
         IN ExpandColumnNeighbors_NoVisitedCheck(Tail(order), dir, current_key, current_depth,
                seen \cup {neighbor_key},
                Append(found, << neighbor_key, ColumnEdgeDep(dir, current_key, neighbor_key) >>),
                Append(pending, << neighbor_key, current_depth + 1 >>))

RECURSIVE ExpandColumnNeighbors(_, _, _, _, _, _, _)
ExpandColumnNeighbors(order, dir, current_key, current_depth, seen, found, pending) ==
    IF order = << >> THEN [visited |-> seen, results |-> found, queue |-> pending]
    ELSE LET neighbor_key == Head(order)
         IN IF neighbor_key \in seen
            THEN ExpandColumnNeighbors(Tail(order), dir, current_key, current_depth,
                                       seen, found, pending)
            ELSE ExpandColumnNeighbors(Tail(order), dir, current_key, current_depth,
                    seen \cup {neighbor_key},
                    Append(found, << neighbor_key, ColumnEdgeDep(dir, current_key, neighbor_key) >>),
                    Append(pending, << neighbor_key, current_depth + 1 >>))

\* The argument visited instead of visited.copy(): the set an earlier callee
\* has added to.
VisitedCopy_Shared(caller_set, callee_set) == callee_set

\* What a callee receives for the argument visited.copy(): the caller's set,
\* whatever an earlier callee did to its own copy.
VisitedCopy(caller_set, callee_set) == caller_set

NoColumnCall == [object_id |-> << "" >>, column_name |-> << "" >>, direction |-> "", depth |-> 0]

NoColumnResult == [column_deps |-> << >>, source_columns |-> << >>, target_columns |-> << >>]

\* The loop of get_column_lineage over upstream_cols.
RECURSIVE AddSourceColumns(_, _)
AddSourceColumns(response, cols) ==
    IF cols = << >> THEN response
    ELSE LET src_key == Head(cols)[1]
             dep == Head(cols)[2]
             parts == SplitKey(src_key)
         IN IF dep = NoColumnDep THEN AddSourceColumns(response, Tail(cols))
            ELSE AddSourceColumns(
                    [response EXCEPT
                        !.column_deps = Append(@, dep),
                        !.source_columns =
                            Append(@, [object_id |-> parts.object_id,
                                       column |-> parts.column,
                                       transformation |-> dep.transformation,
                                       transformation_type |-> dep.transformation_type])],
                    Tail(cols))

\* The loop of get_column_lineage over downstream_cols.
RECURSIVE AddTargetColumns(_, _)
AddTargetColumns(response, cols) ==
    IF cols = << >> THEN response
    ELSE LET tgt_key == Head(cols)[1]
             dep == Head(cols)[2]
             parts == SplitKey(tgt_key)
         IN IF dep = NoColumnDep THEN AddTargetColumns(response, Tail(cols))
            ELSE AddTargetColumns(
                    [response EXCEPT
                        !.column_deps = Append(@, dep),
                        !.target_columns =
                            Append(@, [object_id |-> parts.object_id,
                                       column |-> parts.column])],
                    Tail(cols))

\* load_cache: the loop over deps.get("column_level", []).
LoadColumnLevel ==
    /\ col_pc = "new"
    /\ \E column_level \in SeqsUpTo(ColumnDepPool, MaxColumnDeps) :
          column_deps' = column_level
    /\ col_pc' = "idle"
    /\ UNCHANGED << col_call, col_queue, col_visited, col_results, col_response,
                    lineageVars, extractorVars,
                    graphVars, mergeVars, shapeVars, pageVars, loaderVars, parserVars >>

\* get_column_lineage up to its first call of _traverse_column_lineage and
\* that call up to its loop.
GetColumnLineage ==
    /\ col_pc = "idle"
    /\ \E c \in ColumnPool, dir \in {"upstream", "downstream", "both"}, d \in 1..MaxColumnDepth :
          /\ col_call' = [object_id |-> c[1], column_name |-> c[2], direction |-> dir, depth |-> d]
          /\ col_pc' = IF dir \in {"upstream", "both"} THEN "upstream" ELSE "downstream"
          /\ col_queue' = << << column_key(c[1], c[2]), 0 >> >>
          /\ col_visited' = VisitedCopy({}, {}) \cup {column_key(c[1], c[2])}
    /\ col_results' = << >>
    /\ col_response' = NoColumnResult
    /\ UNCHANGED << column_deps, lineageVars, extractorVars,
                    graphVars, mergeVars, shapeVars, pageVars, loaderVars, parserVars >>

\* One iteration of the while loop of _traverse_column_lineage.
ColumnBfsStep ==
    /\ col_pc \in {"upstream", "downstream"}
    /\ col_queue # << >>
    /\ LET current_key == Head(col_queue)[1]
           current_depth == Head(col_queue)[2]
           dir == IF col_pc = "upstream" THEN "backward" ELSE "forward"
       IN IF current_depth >= col_call.depth
          THEN /\ col_queue' = Tail(col_queue)
               /\ UNCHANGED << col_visited, col_results >>
          ELSE \E order \in Orders(ColumnNeighbors(ColumnEdges(dir), current_key)) :
                  LET after == ExpandColumnNeighbors(order, dir, current_key, current_depth,
                                                     col_visited, col_results, Tail(col_queue))
                  IN /\ col_queue' = after.queue
                     /\ col_visited' = after.visited
                     /\ col_results' = after.results
    /\ UNCHANGED << column_deps, col_call, col_pc, col_response, lineageVars, extractorVars,
                    graphVars, mergeVars, shapeVars, pageVars, loaderVars, parserVars >>

\* _traverse_column_lineage returns; get_column_lineage turns the results
\* into source_columns or target_columns, and then either starts the forward
\* traversal or returns.
ColumnTraverseReturn ==
    /\ col_pc \in {"upstream", "downstream"}
    /\ col_queue = << >>
    /\ IF col_pc = "upstream"
       THEN /\ col_response' = AddSourceColumns(col_response, col_results)
            /\ IF col_call.direction = "both"
               THEN /\ col_pc' = "downstream"
                    /\ col_queue' = << << column_key(col_call.object_id, col_call.column_name), 0 >> >>
                    /\ col_visited' = VisitedCopy({}, col_visited)
                                        \cup {column_key(col_call.object_id, col_call.column_name)}
                    /\ col_results' = << >>
               ELSE /\ col_pc' = "done"
                    /\ UNCHANGED << col_queue, col_visited, col_results >>
       ELSE /\ col_response' = AddTargetColumns(col_response, col_results)
            /\ col_pc' = "done"
            /\ UNCHANGED << col_queue, col_visited, col_results >>
    /\ UNCHANGED << column_deps, col_call, lineageVars, extractorVars,
                    graphVars, mergeVars, shapeVars, pageVars, loaderVars, parserVars >>

ColumnIdle ==
    /\ column_deps = << >>
    /\ col_call = NoColumnCall
    /\ col_pc = "new"
    /\ col_queue = << >>
    /\ col_visited = {}
    /\ col_results = << >>
    /\ col_response = NoColumnResult

(***************************************************************************)
(* The column lineage extractor (column_lineage_parser.py) on one column  *)
(* of a SELECT list.  SQL text is a sequence of characters.               *)
(***************************************************************************)
Chars(head, n) == head \o [i \in 1..(n - Len(head)) |-> "x"]

\* str.upper() on the characters the texts below are written with.
UpperText(text) == [i \in DOMAIN text |-> IF text[i] = "x" THEN "X" ELSE text[i]]

\* sub in text
Contains(text, sub) ==
    \E i \in 1..(Len(text) - Len(sub) + 1) : SubSeq(text, i, i + Len(sub) - 1) = sub

\* text[:n]
Prefix(text, n) == SubSeq(text, 1, IF Len(text) < n THEN Len(text) ELSE n)

\* Optional[str]: None, or a string.
None == [null |-> TRUE, text |-> << >>]

Str(text) == [null |-> FALSE, text |-> text]

\* The lengths of the SQL that sqlglot renders for an expression.
RenderedLengths == {12, 197, 200, 201, 230}

\* The classes of sqlglot expression that classify_transformation tells
\* apart, each with how its rendering begins: t.x, CAST(x AS INT),
\* CASE WHEN .., COUNTIF(x), MY_UDF(x), SUM(x), COALESCE(x, ..), UPPER(x),
\* x + .., (x).
ExpressionHeads ==
    { [class |-> "Column", name |-> "", head |-> << "x", "." >>],
      [class |-> "Cast", name |-> "", head |-> << "C", "A", "S", "T", "(" >>],
      [class |-> "Case", name |-> "", head |-> << "C", "A", "S", "E", " " >>],
      [class |-> "Anonymous", name |-> "COUNTIF", head |-> << "C", "O", "U", "N", "T", "I", "F", "(" >>],
      [class |-> "Anonymous", name |-> "MY_UDF", head |-> << "M", "Y", "_", "U", "D", "F", "(" >>],
      [class |-> "AggFunc", name |-> "SUM", head |-> << "S", "U", "M", "(" >>],
      [class |-> "Func", name |-> "COALESCE", head |-> << "C", "O", "A", "L", "E", "S", "C", "E", "(" >>],
      [class |-> "Func", name |-> "UPPER", head |-> << "U", "P", "P", "E", "R", "(" >>],
      [class |-> "Binary", name |-> "", head |-> << "x", " ", "+", " " >>],
      [class |-> "Paren", name |-> "", head |-> << "(" >>] }

\* An expression of the SELECT list, with expression.sql() and the source
\* columns found in it.
Expressions ==
    { [class |-> h.class, name |-> h.name, text |-> Chars(h.head, n), sources |-> k] :
        h \in ExpressionHeads, n \in RenderedLengths, k \in 1..2 }

NoExpression == [class |-> "", name |-> "", text |-> << >>, sources |-> 0]

AGGREGATE_FUNCTIONS == {"SUM", "COUNT", "AVG", "MIN", "MAX", "COUNTIF"}

classify_transformation(expression) ==
    CASE expression.class = "Column" -> "DIRECT"
      [] expression.class = "Cast" -> "CAST"
      [] expression.class = "Case" -> "CASE"
      [] expression.class = "Anonymous" ->
            IF expression.name \in AGGREGATE_FUNCTIONS THEN "AGGREGATE" ELSE "FUNCTION"
      [] expression.class = "AggFunc" -> "AGGREGATE"
      [] expression.class = "Func" ->
            IF expression.name \in AGGREGATE_FUNCTIONS THEN "AGGREGATE" ELSE "FUNCTION"
      [] expression.class = "Binary" -> "EXPRESSION"
      [] OTHER -> "UNKNOWN"

\* get_transformation_sql without the truncation.
get_transformation_sql_Untruncated(expression, transformation_type, sql_raises) ==
    IF transformation_type = "DIRECT" THEN None
    ELSE IF sql_raises THEN None
    ELSE Str(expression.text)

\* sql_raises: expression.sql() raised, which the except clause turns into
\* None.
get_transformation_sql(expression, transformation_type, sql_raises) ==
    IF transformation_type = "DIRECT" THEN None
    ELSE IF sql_raises THEN None
    ELSE IF Len(expression.text) > 200
         THEN Str(SubSeq(expression.text, 1, 197) \o << ".", ".", "." >>)
         ELSE Str(expression.text)

LineageDep(n, transformation, transformation_type) ==
    [source_column |-> n, transformation |-> transformation,
     transformation_type |-> transformation_type]

\* trace_column_lineage: one dependency for each source column.  sqlglot
\* renders every expression it has parsed, so expression.sql() returns.
trace_column_lineage(expression) ==
    LET transformation_type == classify_transformation(expression)
        transformation_sql == get_transformation_sql(expression, transformation_type, FALSE)
    IN [n \in 1..expression.sources |-> LineageDep(n, transformation_sql, transformation_type)]

AnyContained(text, subs) == \E sub \in subs : Contains(text, sub)

\* fallback_extract, lines 566-595, for one target column.
FallbackType(expression, has_lineage, expr_sql) ==
    IF has_lineage /\ expression.class = "Column" THEN "DIRECT"
    ELSE IF AnyContained(expr_sql, { << "S", "U", "M", "(" >>, << "C", "O", "U", "N", "T", "(" >>,
                                     << "A", "V", "G", "(" >>, << "M", "I", "N", "(" >>,
                                     << "M", "A", "X", "(" >> }) THEN "AGGREGATE"
    ELSE IF Contains(expr_sql, << "C", "A", "S", "E" >>) THEN "CASE"
    ELSE IF AnyContained(expr_sql, { << "C", "A", "S", "T", "(" >>, << ":", ":" >> }) THEN "CAST"
    ELSE IF AnyContained(expr_sql, { << "C", "O", "A", "L", "E", "S", "C", "E", "(" >>,
                                     << "N", "V", "L", "(" >>,
                                     << "C", "O", "N", "C", "A", "T", "(" >> }) THEN "FUNCTION"
    ELSE "DIRECT"

\* has_sqlglot: the name sqlglot is bound, so the target columns are found.
fallback_extract(expression, has_sqlglot_module, has_lineage) ==
    IF ~has_sqlglot_module THEN << >>
    ELSE LET expr_sql == UpperText(expression.text)
             trans_type == FallbackType(expression, has_lineage, expr_sql)
         IN [n \in 1..expression.sources |->
                LineageDep(n, IF trans_type # "DIRECT" THEN Str(Prefix(expr_sql, 200)) ELSE None,
                           trans_type)]

\* The builds and runs of extract_column_lineage: sqlglot and its lineage
\* module imported; only sqlglot imported; neither; and whether
\* _extract_with_sqlglot raised after the SQL was parsed.
LineageEnvs ==
    { [sqlglot |-> TRUE, lineage |-> TRUE, raised |-> FALSE],
      [sqlglot |-> TRUE, lineage |-> TRUE, raised |-> TRUE],
      [sqlglot |-> TRUE, lineage |-> FALSE, raised |-> FALSE],
      [sqlglot |-> FALSE, lineage |-> FALSE, raised |-> FALSE] }

extract_column_lineage(expression, env) ==
    IF ~env.lineage THEN fallback_extract(expression, env.sqlglot, env.lineage)
    ELSE IF env.raised THEN fallback_extract(expression, env.sqlglot, env.lineage)
    ELSE trace_column_lineage(expression)

NoLineage == [returned |-> FALSE, deps |-> << >>]

ExtractColumnLineage ==
    /\ select_expr # NoExpression
    /\ ~column_lineage.returned
    /\ column_lineage' = [returned |-> TRUE,
                          deps |-> extract_column_lineage(select_expr, lineage_env)]
    /\ UNCHANGED << select_expr, lineage_env, columnVars, extractorVars,
                    graphVars, mergeVars, shapeVars, pageVars, loaderVars, parserVars >>

LineageIdle ==
    /\ select_expr = NoExpression
    /\ lineage_env = [sqlglot |-> FALSE, lineage |-> FALSE, raised |-> FALSE]
    /\ column_lineage = NoLineage

(***************************************************************************)
(* The cache fragments the extractors build: the BigQuery-Exasol bridge   *)
(* (extract_bq_exasol_bridge.py), the BigQuery extractor                  *)
(* (extract_from_bigquery.py) and the Exasol extractor's script handler   *)
(* (extract_from_exasol.py).  A bridge or BigQuery id is the sequence of  *)
(* its platform prefix and its dot-separated parts; an Exasol id is the   *)
(* pair [schema, name] of the parser's model.                             *)
(***************************************************************************)
MaxFragmentDeps == 2

FragmentObject(type, owner) == [type |-> type, owner |-> owner]

FragmentDep(source_id, target_id, dependency_type) ==
    [source_id |-> source_id, target_id |-> target_id, dependency_type |-> dependency_type]

\* objects[object_id] = .. when object_id is not yet a key.
AddObject(objs, object_id, obj) ==
    IF object_id \in DOMAIN objs THEN objs
    ELSE [k \in DOMAIN objs \cup {object_id} |-> IF k = object_id THEN obj ELSE objs[k]]

\* objects[object_id] = .. whatever the key holds.
PutObject(objs, object_id, obj) ==
    [k \in DOMAIN objs \cup {object_id} |-> IF k = object_id THEN obj ELSE objs[k]]

\* str.upper() on the names of the sync records.
UpperName(s) == IF s = "t" THEN "T" ELSE s

\* The rows of the sync metadata table: "" is a missing field.
SyncRecords ==
    { [bq_project_id |-> p, bq_dataset_id |-> d, bq_table_name |-> t,
       exa_stg_schema_name |-> stg[1], exa_stg_table_name |-> stg[2],
       exa_dm_schema_name |-> dm[1], exa_dm_table_name |-> dm[2]] :
        p \in {"", "P"}, d \in {"", "D"}, t \in {"", "t", "T"},
        stg \in { << "", "" >>, << "STG", "" >>, << "STG", "t" >> },
        dm \in { << "", "" >>, << "DM", "T" >>, << "STG", "T" >> } }

\* build_lineage_from_sync: the body of the loop for one record.
SyncRecordStep(objs, deps, record) ==
    IF record.bq_table_name = "" THEN [objects |-> objs, deps |-> deps]
    ELSE
    LET bq_full_name ==
            IF record.bq_project_id # "" /\ record.bq_dataset_id # ""
            THEN << record.bq_project_id, record.bq_dataset_id, record.bq_table_name >>
            ELSE IF record.bq_dataset_id # ""
                 THEN << record.bq_dataset_id, record.bq_table_name >>
                 ELSE << record.bq_table_name >>
        bq_object_id == << "BIGQUERY" >> \o [i \in DOMAIN bq_full_name |-> UpperName(bq_full_name[i])]
        objs1 == AddObject(objs, bq_object_id, FragmentObject("TABLE", "bigquery"))
        has_stg == record.exa_stg_schema_name # "" /\ record.exa_stg_table_name # ""
        exa_stg_object_id ==
            << UpperName(record.exa_stg_schema_name), UpperName(record.exa_stg_table_name) >>
        objs2 == IF has_stg
                 THEN AddObject(objs1, exa_stg_object_id, FragmentObject("TABLE", "exasol"))
                 ELSE objs1
        deps2 == IF has_stg
                 THEN Append(deps, FragmentDep(bq_object_id, exa_stg_object_id, "SYNC"))
                 ELSE deps
        has_dm == record.exa_dm_schema_name # "" /\ record.exa_dm_table_name # ""
        exa_dm_object_id ==
            << UpperName(record.exa_dm_schema_name), UpperName(record.exa_dm_table_name) >>
    IN IF ~has_dm THEN [objects |-> objs2, deps |-> deps2]
       ELSE [objects |-> AddObject(objs2, exa_dm_object_id, FragmentObject("TABLE", "exasol")),
             deps |-> IF has_stg
                      THEN Append(deps2, FragmentDep(exa_stg_object_id, exa_dm_object_id, "ETL"))
                      ELSE Append(deps2, FragmentDep(bq_object_id, exa_dm_object_id, "SYNC"))]

\* build_lineage_from_sync: one iteration of the loop over sync_records.
BuildLineageFromSync ==
    /\ extractor = "bridge"
    /\ Len(frag_deps) < MaxFragmentDeps
    /\ \E record \in SyncRecords :
          LET after == SyncRecordStep(frag_objects, frag_deps, record)
          IN /\ frag_objects' = after.objects
             /\ frag_deps' = after.deps
    /\ UNCHANGED << extractor, columnVars, lineageVars,
                    graphVars, mergeVars, shapeVars, pageVars, loaderVars, parserVars >>

\* f"bigquery:{project}.{dataset}.{table}"
BqId(parts) == << "bigquery:" >> \o parts

BqView == BqId(<< "P", "D", "V" >>)

BqRoutine == BqId(<< "P", "D", "R" >>)

\* The objects the BigQuery extractor has read from INFORMATION_SCHEMA
\* before it parses definitions: a table, a view and a procedure of
\* dataset P.D.
BqExtracted ==
    [k \in { BqId(<< "P", "D", "T" >>), BqView, BqRoutine } |->
        CASE k = BqView -> FragmentObject("BIGQUERY_VIEW", "P")
          [] k = BqRoutine -> FragmentObject("BIGQUERY_PROCEDURE", "P")
          [] OTHER -> FragmentObject("BIGQUERY_TABLE", "P")]

\* ref.full_id().upper() of the references of a definition, as dot-separated
\* parts, with the reference type.
BqRefs ==
    { [parts |-> p, reference_type |-> t] :
        p \in { << "T" >>, << "D", "T" >>, << "Q", "E", "U" >>, << "E", "U" >>,
                << "A", "Q", "E", "U" >> },
        t \in {"SELECT", "INSERT"} }

\* None as the value of resolve_table_reference
NoId == << >>

\* context_schema: the schema "project.dataset" of the view or routine.
resolve_table_reference(parts, context_schema) ==
    LET context_project == context_schema[1]
    IN CASE Len(parts) = 3 -> BqId(parts)
         [] Len(parts) = 2 -> BqId(<< context_project >> \o parts)
         [] Len(parts) = 1 /\ Len(context_schema) > 1 ->
                BqId(<< context_project, context_schema[2] >> \o parts)
         [] OTHER -> NoId

\* create_external_reference with its body left out.
create_external_reference_Missing(objs, object_id) == objs

create_external_reference(objs, object_id) ==
    AddObject(objs, object_id, FragmentObject("BIGQUERY_TABLE", "EXTERNAL"))

\* _parse_view_definitions: the loop over the references of one view.
RECURSIVE ViewReferences(_, _, _)
ViewReferences(objs, deps, refs) ==
    IF refs = << >> THEN [objects |-> objs, deps |-> deps]
    ELSE LET source_id == resolve_table_reference(Head(refs).parts, << "P", "D" >>)
         IN IF source_id # NoId /\ source_id \in DOMAIN objs
            THEN ViewReferences(objs, Append(deps, FragmentDep(source_id, BqView, "USES")),
                                Tail(refs))
            ELSE IF source_id # NoId
            THEN ViewReferences(create_external_reference(objs, source_id),
                                Append(deps, FragmentDep(source_id, BqView, "USES")),
                                Tail(refs))
            ELSE ViewReferences(objs, deps, Tail(refs))

\* _parse_routine_definitions: the loop over the references of one routine.
RECURSIVE RoutineReferences(_, _, _)
RoutineReferences(objs, deps, refs) ==
    IF refs = << >> THEN [objects |-> objs, deps |-> deps]
    ELSE LET source_id == resolve_table_reference(Head(refs).parts, << "P", "D" >>)
             writes == Head(refs).reference_type \in {"DDL", "INSERT", "UPDATE", "DELETE", "MERGE"}
             dep == IF writes THEN FragmentDep(BqRoutine, source_id, "WRITES")
                    ELSE FragmentDep(source_id, BqRoutine, "USES")
         IN IF source_id = NoId THEN RoutineReferences(objs, deps, Tail(refs))
            ELSE RoutineReferences(
                    IF source_id \notin DOMAIN objs
                    THEN create_external_reference(objs, source_id) ELSE objs,
                    Append(deps, dep), Tail(refs))

\* _parse_view_definitions on the extracted view.
ParseViewDefinitions ==
    /\ extractor = "bigquery"
    /\ Len(frag_deps) < MaxFragmentDeps
    /\ \E refs \in SeqsUpTo(BqRefs, 2) :
          LET after == ViewReferences(frag_objects, frag_deps, refs)
          IN /\ frag_objects' = after.objects
             /\ frag_deps' = after.deps
    /\ UNCHANGED << extractor, columnVars, lineageVars,
                    graphVars, mergeVars, shapeVars, pageVars, loaderVars, parserVars >>

\* _parse_routine_definitions on the extracted procedure.
ParseRoutineDefinitions ==
    /\ extractor = "bigquery"
    /\ Len(frag_deps) < MaxFragmentDeps
    /\ \E refs \in SeqsUpTo(BqRefs, 2) :
          LET after == RoutineReferences(frag_objects, frag_deps, refs)
          IN /\ frag_objects' = after.objects
             /\ frag_deps' = after.deps
    /\ UNCHANGED << extractor, columnVars, lineageVars,
                    graphVars, mergeVars, shapeVars, pageVars, loaderVars, parserVars >>

\* The tables a row of the DAG metadata table names, with or without the
\* prefix "bigquery:".
DagTables ==
    { [prefixed |-> b, parts |-> p] :
        b \in BOOLEAN, p \in { << "P", "D", "T" >>, << "Q", "E", "U" >> } }

\* f"bigquery:{source}" if not source.startswith("bigquery:") else source
DagTableId(t) == BqId(t.parts)

DagId == << "composer:", "dag1" >>

\* _extract_dags_from_metadata_table: the body of the loop for one row that
\* names at most one source table and at most one target table.
ExtractDagRow ==
    /\ extractor = "bigquery"
    /\ Len(frag_deps) < MaxFragmentDeps
    /\ \E source_tables \in SeqsUpTo(DagTables, 1), target_tables \in SeqsUpTo(DagTables, 1) :
          LET objs0 == PutObject(frag_objects, DagId, FragmentObject("COMPOSER_DAG", "AIRFLOW"))
              objs1 == IF source_tables = << >> THEN objs0
                       ELSE create_external_reference(objs0, DagTableId(source_tables[1]))
              deps1 == IF source_tables = << >> THEN frag_deps
                       ELSE Append(frag_deps,
                                   FragmentDep(DagTableId(source_tables[1]), DagId, "READS"))
              objs2 == IF target_tables = << >> THEN objs1
                       ELSE create_external_reference(objs1, DagTableId(target_tables[1]))
              deps2 == IF target_tables = << >> THEN deps1
                       ELSE Append(deps1,
                                   FragmentDep(DagId, DagTableId(target_tables[1]), "WRITES"))
          IN /\ frag_objects' = objs2
             /\ frag_deps' = deps2
    /\ UNCHANGED << extractor, columnVars, lineageVars,
                    graphVars, mergeVars, shapeVars, pageVars, loaderVars, parserVars >>

\* The objects the Exasol extractor holds when it parses a script: the
\* tables and the script itself.
ExasolExtracted ==
    [k \in KnownObjects |->
        IF k = UdfId THEN FragmentObject("LUA_UDF", "UNKNOWN") ELSE FragmentObject("TABLE", "DWH")]

\* The SQL of the scripts of EXA_ALL_SCRIPTS.
ScriptStatements == {stmt \in Statements : stmt.cte = "" /\ stmt.kind # "CREATE"}

\* _extract_scripts: objects[script_id] = .. and _parse_script_dependencies
\* with the AST parser available.
ExtractScript ==
    /\ extractor = "exasol"
    /\ Len(frag_deps) < MaxFragmentDeps
    /\ \E stmt \in ScriptStatements, sqlglot \in BOOLEAN :
          \E nodes \in Orders(TableNodes(stmt)) :
             /\ frag_objects' = PutObject(frag_objects, UdfId, FragmentObject("LUA_UDF", "UNKNOWN"))
             /\ frag_deps' = frag_deps \o
                    [i \in DOMAIN ScriptDependencies(UdfId, parse_script(stmt, sqlglot, nodes)) |->
                        LET d == ScriptDependencies(UdfId, parse_script(stmt, sqlglot, nodes))[i]
                        IN FragmentDep(d.source_id, d.target_id, d.dependency_type)]
    /\ UNCHANGED << extractor, columnVars, lineageVars,
                    graphVars, mergeVars, shapeVars, pageVars, loaderVars, parserVars >>

ExtractorIdle ==
    /\ extractor = ""
    /\ frag_objects = EmptyDict
    /\ frag_deps = << >>

MoreIdle == ColumnIdle /\ LineageIdle /\ ExtractorIdle

GraphInit ==
    /\ phase = "new"
    /\ objects = EmptyDict
    /\ forward_edges = EmptyDict
    /\ backward_edges = EmptyDict
    /\ table_deps = << >>
    /\ by_schema = EmptyDict
    /\ by_type = EmptyDict
    /\ edge_map = EmptyDict
    /\ pc = "idle"
    /\ call = NoCall
    /\ direction = "forward"
    /\ depth = 0
    /\ queue = << >>
    /\ visited = {}
    /\ result_nodes = EmptyDict
    /\ result_edges = << >>
    /\ has_more_upstream = EmptyDict
    /\ has_more_downstream = EmptyDict
    /\ dequeued = << >>
    /\ upstream = NoResult
    /\ downstream = NoResult
    /\ result = NoResult

MergeIdle ==
    /\ cacheA = NoCache
    /\ cacheB = NoCache
    /\ cacheC = NoCache
    /\ remerged = NoMerge
    /\ mpc = "idle"

ShapeIdle ==
    /\ load_input = NoFile
    /\ load_raised = ""
    /\ listing = NoListing
    /\ ParserIdle
    /\ MoreIdle

RestIdle == ShapeIdle /\ LoaderIdle

Init == GraphInit /\ MergeIdle /\ RestIdle

\* The merger's start: two cache files have been read.
MergeInit ==
    /\ GraphInit
    /\ RestIdle
    /\ cacheA \in CacheFiles
    /\ cacheB \in CacheFiles
    /\ cacheC = NoCache
    /\ remerged = NoMerge
    /\ mpc = "input"

MergeNext ==
    \/ MergeAB
    \/ MergeAA
    \/ MergeCB
    \/ MergeCA

MergeSpec == MergeInit /\ [][MergeNext]_vars

Next ==
    \/ LoadCache
    \/ get_forward_lineage
    \/ get_backward_lineage
    \/ get_full_lineage
    \/ BfsStep
    \/ DirectionalReturn
    \/ FullUpstreamReturn
    \/ FullDownstreamReturn

Spec == Init /\ [][Next]_vars
\* The directional queries alone; the loop of a running _traverse keeps
\* executing and its return is taken.
TraverseNext ==
    \/ LoadCache
    \/ get_forward_lineage
    \/ get_backward_lineage
    \/ BfsStep
    \/ DirectionalReturn

LiveSpec ==
    /\ Init
    /\ [][TraverseNext]_vars
    /\ WF_vars(BfsStep)
    /\ WF_vars(DirectionalReturn)

\* load_cache handed cache files of every container shape.
ShapeNext == LoadCacheFile

ShapeSpec == Init /\ [][ShapeNext]_vars

\* A loaded engine and a client paging through the object list.
PageNext ==
    \/ LoadCache
    \/ list_objects

PageSpec == Init /\ [][PageNext]_vars

\* The serving process: startup, then requests and reload calls on any thread.
LoaderInit == GraphInit /\ MergeIdle /\ ShapeIdle /\ LoaderStart

Call(t) ==
    \/ BeginRequest(t)
    \/ BeginReload(t)

ReloadStep(t) ==
    \/ Reload124(t)
    \/ Reload125(t)

EngineStep(t) ==
    \/ Engine131(t)
    \/ Engine133(t)

LoadStep(t) ==
    \/ Load73(t)
    \/ Load83(t)
    \/ Load103(t)
    \/ Load104(t)
    \/ LoadCache94(t)
    \/ Load105(t)
    \/ Load107(t)

RouteStep(t) ==
    \/ GetObject(t)
    \/ Stats72(t)
    \/ Stats84(t)

LoaderNext ==
    \/ Lifespan
    \/ Publish
    \/ \E t \in Threads : Call(t)
    \/ \E t \in Threads : ReloadStep(t)
    \/ \E t \in Threads : EngineStep(t)
    \/ \E t \in Threads : LoadStep(t)
    \/ \E t \in Threads : RouteStep(t)

LoaderSpec == LoaderInit /\ [][LoaderNext]_vars

\* The SQL parser and the extractor on one UDF script.
ParserInit ==
    /\ GraphInit
    /\ MergeIdle
    /\ load_input = NoFile
    /\ load_raised = ""
    /\ listing = NoListing
    /\ LoaderIdle
    /\ MoreIdle
    /\ ParserStart

ParserNext ==
    \/ ParseSql
    \/ ParseScriptDependencies
    \/ ParseScript

ParserSpec == ParserInit /\ [][ParserNext]_vars

\* SQLParser.parse on an input of two statements.
StatementsInit ==
    /\ GraphInit
    /\ MergeIdle
    /\ load_input = NoFile
    /\ load_raised = ""
    /\ listing = NoListing
    /\ LoaderIdle
    /\ MoreIdle
    /\ sql \in {stmt \in Statements : stmt.kind = "SELECT"}
    /\ sql_more \in {<< stmt >> : stmt \in MoreStatements}
    /\ has_sqlglot \in BOOLEAN
    /\ require_schema \in BOOLEAN
    /\ references = NotParsed
    /\ udf_deps = NotExtracted
    /\ validated = NotValidated

StatementsNext == ParseSql

StatementsSpec == StatementsInit /\ [][StatementsNext]_vars

\* get_column_lineage on a loaded engine.
ColumnInit ==
    /\ GraphInit
    /\ MergeIdle
    /\ load_input = NoFile
    /\ load_raised = ""
    /\ listing = NoListing
    /\ LoaderIdle
    /\ ParserIdle
    /\ MoreIdle

ColumnNext ==
    \/ LoadColumnLevel
    \/ GetColumnLineage
    \/ ColumnBfsStep
    \/ ColumnTraverseReturn

ColumnSpec == ColumnInit /\ [][ColumnNext]_vars

\* The scheduling of a request handler: a started call keeps running.
ColumnLiveSpec ==
    /\ ColumnSpec
    /\ WF_vars(ColumnBfsStep)
    /\ WF_vars(ColumnTraverseReturn)

\* extract_column_lineage on the SQL of one target column.
LineageInit ==
    /\ GraphInit
    /\ MergeIdle
    /\ load_input = NoFile
    /\ load_raised = ""
    /\ listing = NoListing
    /\ LoaderIdle
    /\ ParserIdle
    /\ ColumnIdle
    /\ ExtractorIdle
    /\ select_expr \in Expressions
    /\ lineage_env \in LineageEnvs
    /\ column_lineage = NoLineage

LineageNext == ExtractColumnLineage

LineageSpec == LineageInit /\ [][LineageNext]_vars

\* An extractor at the start of its run.
ExtractorInit ==
    /\ GraphInit
    /\ MergeIdle
    /\ load_input = NoFile
    /\ load_raised = ""
    /\ listing = NoListing
    /\ LoaderIdle
    /\ ParserIdle
    /\ ColumnIdle
    /\ LineageIdle
    /\ extractor \in {"bridge", "bigquery", "exasol"}
    /\ frag_objects = CASE extractor = "bigquery" -> BqExtracted
                        [] extractor = "exasol" -> ExasolExtracted
                        [] OTHER -> EmptyDict
    /\ frag_deps = << >>

ExtractorNext ==
    \/ BuildLineageFromSync
    \/ ParseViewDefinitions
    \/ ParseRoutineDefinitions
    \/ ExtractDagRow
    \/ ExtractScript

ExtractorSpec == ExtractorInit /\ [][ExtractorNext]_vars

(***************************************************************************)
(* Properties of the graph engine.                                         *)
(***************************************************************************)
DirectionalDone == pc = "done" /\ call.op \in {"forward", "backward"}

FullDone == pc = "done" /\ call.op = "full"

NodeIds(res) == DOMAIN res.nodes

EdgeSet(res) == Range(res.edges)

EdgeKeys(edges) == {<<e.source_id, e.target_id>> : e \in Range(edges)}

\* No (source_id, target_id) pair occurs twice in the list.
NoRepeatedPair(edges) ==
    \A i, j \in DOMAIN edges :
        (edges[i].source_id = edges[j].source_id /\ edges[i].target_id = edges[j].target_id)
            => i = j

EndpointsInNodes(res) ==
    \A e \in EdgeSet(res) : e.source_id \in NodeIds(res) /\ e.target_id \in NodeIds(res)

\* Every dependency endpoint of the loaded cache is an object.
AllEndpointsAreObjects ==
    \A e \in Range(table_deps) : e.source_id \in DOMAIN objects /\ e.target_id \in DOMAIN objects

\* The neighbours of n in the loaded dependency list, read off the list itself.
DepNeighbors(dir, n) ==
    IF dir = "forward"
    THEN {e.target_id : e \in {x \in Range(table_deps) : x.source_id = n}}
    ELSE {e.source_id : e \in {x \in Range(table_deps) : x.target_id = n}}

\* The ids at most k hops from start along the loaded dependencies.
RECURSIVE Ball(_, _, _)
Ball(dir, start, k) ==
    IF k = 0 THEN {start}
    ELSE LET inner == Ball(dir, start, k - 1)
         IN  inner \cup UNION {DepNeighbors(dir, n) : n \in inner}

\* C1: every edge of a forward / backward / full lineage result has its
\* source_id and its target_id among the keys of the result's nodes, for any
\* loaded cache, dangling dependencies included.
C1_EdgeEndpointsInNodes == pc = "done" => EndpointsInNodes(result)

\* C2: after load_cache, for all ids i and j: i in forward[j] iff (j, i) is a
\* key of the edge index iff j in backward[i]; repeated pairs and endpoints
\* that are not objects included.
C2_IndicesAgree ==
    /\ \A i, j \in Ids :
         /\ (i \in DictGet(forward_edges, j, {})) <=> (<<j, i>> \in DOMAIN edge_map)
         /\ (<<j, i>> \in DOMAIN edge_map) <=> (j \in DictGet(backward_edges, i, {}))
    /\ DOMAIN edge_map = EdgeKeys(table_deps)
    /\ DOMAIN forward_edges \subseteq Ids
    /\ DOMAIN backward_edges \subseteq Ids

\* C2 witness: a loaded engine whose cache repeats a (source, target) pair and
\* names an endpoint that is not an object.
C2_Witness ==
    /\ phase = "loaded"
    /\ ~NoRepeatedPair(table_deps)
    /\ ~AllEndpointsAreObjects

\* C3: when every dependency endpoint is an object, the nodes of a forward /
\* backward lineage are exactly the objects at most depth hops from the start
\* along that direction, the start included; with depth 0 the result is the
\* start node alone with no edges.
C3_NodesAreBall ==
    (DirectionalDone /\ AllEndpointsAreObjects) =>
        /\ NodeIds(result) = Ball(call.op, call.object_id, call.depth) \cap DOMAIN objects
        /\ \A n \in NodeIds(result) : result.nodes[n] = objects[n]
        /\ call.object_id \in DOMAIN objects => call.object_id \in NodeIds(result)
        /\ (call.depth = 0 /\ call.object_id \in DOMAIN objects) =>
               (NodeIds(result) = {call.object_id} /\ result.edges = << >>)

\* C3 witness: a finished traversal of depth 1 from an object that has an
\* object two hops away (left out) and one one hop away (included).
C3_Witness ==
    /\ DirectionalDone
    /\ AllEndpointsAreObjects
    /\ call.depth = 1
    /\ call.object_id \in DOMAIN objects
    /\ Cardinality(NodeIds(result)) >= 2
    /\ Ball(call.op, call.object_id, 2) # Ball(call.op, call.object_id, 1)

\* The scenario of the chain: A->B->C->D, forward_lineage(A, 1).
ChainCall ==
    /\ DirectionalDone
    /\ call = [op |-> "forward", object_id |-> "A", depth |-> 1]
    /\ EdgeKeys(table_deps) = {<<"A", "B">>, <<"B", "C">>, <<"C", "D">>}
    /\ DOMAIN objects = Ids

\* C4: in a forward / backward lineage result, has_more_downstream[n] is true
\* exactly when some forward neighbour of n is outside the traversal's visited
\* set (has_more_upstream likewise for backward neighbours); on A->B->C->D,
\* forward_lineage(A, 1) has has_more_downstream[B] true and [A] false.
C4_HasMoreMatchesVisited ==
    DirectionalDone =>
        /\ \A n \in DOMAIN result.has_more_downstream :
             result.has_more_downstream[n]
                 <=> AnyUnvisited(DictGet(forward_edges, n, {}), visited)
        /\ \A n \in DOMAIN result.has_more_upstream :
             result.has_more_upstream[n]
                 <=> AnyUnvisited(DictGet(backward_edges, n, {}), visited)
        /\ ChainCall =>
               /\ NodeIds(result) = {"A", "B"}
               /\ EdgeKeys(result.edges) = {<<"A", "B">>}
               /\ result.has_more_downstream["B"] = TRUE
               /\ result.has_more_downstream["A"] = FALSE

\* C5: the edges of a forward / backward lineage result are exactly the loaded
\* table-level dependencies whose source and target are both result nodes,
\* each (source_id, target_id) pair at most once.
C5_EdgesAreInducedDeps ==
    DirectionalDone =>
        /\ EdgeSet(result) =
               {e \in Range(table_deps) :
                    e.source_id \in NodeIds(result) /\ e.target_id \in NodeIds(result)}
        /\ NoRepeatedPair(result.edges)

\* C6: full_lineage(id, u, d) has as nodes the union of the nodes of
\* backward_lineage(id, u) and forward_lineage(id, d), and as edges the union
\* of their edges with no (source_id, target_id) pair repeated.
C6_FullIsUnion ==
    FullDone =>
        /\ NodeIds(result) = NodeIds(upstream) \cup NodeIds(downstream)
        /\ \A n \in NodeIds(result) : result.nodes[n] = objects[n]
        /\ EdgeSet(result) = EdgeSet(upstream) \cup EdgeSet(downstream)
        /\ NoRepeatedPair(result.edges)

\* C6 witness: a finished full lineage in which an edge was returned by both
\* directional traversals, so that de-duplication had something to drop.
C6_Witness ==
    /\ FullDone
    /\ EdgeSet(upstream) \cap EdgeSet(downstream) # {}
    /\ EdgeSet(upstream) # EdgeSet(downstream)

\* No id is popped twice by one _traverse.
DequeuedOnce == \A i, j \in DOMAIN dequeued : dequeued[i] = dequeued[j] => i = j

\* The scenario of the two-cycle: A->B, B->A, forward_lineage(A, MaxDepth).
TwoCycleCall ==
    /\ DirectionalDone
    /\ call = [op |-> "forward", object_id |-> "A", depth |-> MaxDepth]
    /\ EdgeKeys(table_deps) = {<<"A", "B">>, <<"B", "A">>}
    /\ {"A", "B"} \subseteq DOMAIN objects

\* C7: a table-level traversal terminates on every finite graph, cycles and
\* self-loops included, and dequeues each node id at most once; on A->B, B->A,
\* forward_lineage(A, 5) returns nodes {A, B} and edges {A->B, B->A}.
C7_TerminatesDequeuesOnce ==
    /\ [](DequeuedOnce)
    /\ [](TwoCycleCall =>
            /\ NodeIds(result) = {"A", "B"}
            /\ EdgeKeys(result.edges) = {<<"A", "B">>, <<"B", "A">>}
            /\ Len(result.edges) = 2)
    /\ (pc = "bfs") ~> (pc = "done")

\* C7 witness: the two-cycle traversal has finished.
C7_Witness == TwoCycleCall /\ Len(dequeued) = 2
(***************************************************************************)
(* Properties of the cache merger.                                         *)
(***************************************************************************)
\* The base and the new cache of the merge whose outcome is in remerged.
BaseOf == IF remerged.of \in {"AB", "AA"} THEN cacheA ELSE cacheC

NewOf == IF remerged.of \in {"AB", "CB"} THEN cacheB ELSE cacheA

Merged == remerged.of # "none"

ObjectsOf(cache) == Range(cache.objects.items)

DepsOf(cache) == cache.dependencies.items

SameObjectsAndDeps(x, y) == ObjectsOf(x) = ObjectsOf(y) /\ DepsOf(x) = DepsOf(y)

\* C8: merge_caches is idempotent on objects and dependencies, in either
\* container shape: merge(A, A) has the objects and dependencies of A, and
\* with C = merge(A, B), merge(C, B) and merge(C, A) have those of C.
C8_MergeIdempotent ==
    /\ remerged.of = "AA" => SameObjectsAndDeps(remerged.cache, cacheA)
    /\ remerged.of = "CB" => SameObjectsAndDeps(remerged.cache, cacheC)
    /\ remerged.of = "CA" => SameObjectsAndDeps(remerged.cache, cacheC)

\* The first object of a container that carries the id (a map holds an id
\* once, under its own key).
FirstIn(container, id) ==
    IF container.kind = "list"
    THEN LET at == {i \in DOMAIN container.items : container.items[i].id = id}
         IN  container.items[CHOOSE i \in at : \A j \in at : i <= j]
    ELSE CHOOSE o \in Range(container.items) : o.id = id

Carries(container, id) == \E o \in Range(container.items) : o.id = id

\* C9: for every object id the merged cache holds the first object carrying
\* that id in the order base-then-new, and no other: a base object is never
\* overwritten, a later object with an id already seen is discarded.
C9_FirstObjectWins ==
    Merged =>
        \A id \in MergeIds :
            (Carries(BaseOf.objects, id) \/ Carries(NewOf.objects, id)) =>
                {o \in ObjectsOf(remerged.cache) : o.id = id} =
                    { IF Carries(BaseOf.objects, id) THEN FirstIn(BaseOf.objects, id)
                      ELSE FirstIn(NewOf.objects, id) }

\* The (source, target) endpoints a dependency names, whichever spelling it
\* uses.
Endpoints(dep) == <<Or(dep.source_id, dep.source), Or(dep.target_id, dep.target)>>

NoRepeatedEndpoints(deps) ==
    \A i, j \in DOMAIN deps : Endpoints(deps[i]) = Endpoints(deps[j]) => i = j

\* The new dependencies, from the j-th on, whose endpoints are those of no
\* base dependency and of no earlier new dependency.
RECURSIVE FirstOfNewKeys(_, _, _)
FirstOfNewKeys(bd, nd, j) ==
    IF j > Len(nd) THEN << >>
    ELSE LET fresh == /\ \A i \in DOMAIN bd : Endpoints(bd[i]) # Endpoints(nd[j])
                      /\ \A k \in 1..(j - 1) : Endpoints(nd[k]) # Endpoints(nd[j])
         IN  (IF fresh THEN << nd[j] >> ELSE << >>) \o FirstOfNewKeys(bd, nd, j + 1)

\* C10: after a merge every base dependency keeps its position and its
\* annotations, and a new dependency is appended iff its (source, target) is
\* that of no base dependency and of no earlier appended one; hence a base
\* without repeated (source_id, target_id) gives a merged cache without.
C10_DepsFirstWins ==
    Merged =>
        /\ DepsOf(remerged.cache) =
               DepsOf(BaseOf) \o FirstOfNewKeys(DepsOf(BaseOf), DepsOf(NewOf), 1)
        /\ remerged.added_deps = Len(DepsOf(remerged.cache)) - Len(DepsOf(BaseOf))
        /\ NoRepeatedEndpoints(DepsOf(BaseOf)) => NoRepeatedEndpoints(DepsOf(remerged.cache))

\* C10 witness: a merge of two different files that appended a dependency
\* spelled with source/target and dropped one whose endpoints the base
\* already had.
C10_Witness ==
    /\ remerged.of = "AB"
    /\ DepsOf(cacheA) # << >>
    /\ remerged.added_deps = 1
    /\ Len(DepsOf(cacheB)) = 2
    /\ \E i \in DOMAIN DepsOf(remerged.cache) : DepsOf(remerged.cache)[i].source # Absent
    /\ Range(DepsOf(cacheB)) \cap Range(DepsOf(cacheA)) = {}

\* C11: for caches in either objects shape, the merged objects are a map keyed
\* by object id that holds, under its own id, every object id of the base and
\* every object id of the new cache, objects that carry both a string id and
\* a numeric object_id tag included.
C11_MergedKeyedById ==
    Merged =>
        /\ remerged.cache.objects.kind = "dict"
        /\ \A id \in MergeIds :
             (Carries(BaseOf.objects, id) \/ Carries(NewOf.objects, id)) =>
                 /\ id \in DOMAIN remerged.cache.objects.items
                 /\ remerged.cache.objects.items[id].id = id

\* C12: the merged cache keeps the container shapes of the base: objects a
\* sequence if the base's are a sequence and a map if they are a map;
\* dependencies a flat sequence if the base's are flat, and
\* {table_level, column_level} if the base's are.
C12_ShapesPreserved ==
    Merged =>
        /\ remerged.cache.objects.kind = BaseOf.objects.kind
        /\ BaseOf.dependencies.kind \in {"list", "nested"} =>
               remerged.cache.dependencies.kind = BaseOf.dependencies.kind
        /\ BaseOf.dependencies.kind = "nested" =>
               remerged.cache.dependencies.column_level = BaseOf.dependencies.column_level

(***************************************************************************)
(* Properties of load_cache on cache files and of the object listing.      *)
(***************************************************************************)
\* The engine built from a cache whose objects are a map and whose
\* dependencies are {table_level, column_level}.
ReferenceEngine(data) ==
    load_cache(data, CHOOSE ids \in Orders(DOMAIN data.objects) : TRUE)

EngineIs(eng) ==
    /\ objects = eng.objects
    /\ forward_edges = eng.forward_edges
    /\ backward_edges = eng.backward_edges
    /\ table_deps = eng.table_deps
    /\ by_schema = eng.by_schema
    /\ by_type = eng.by_type
    /\ edge_map = eng.edge_map

\* C13: load_cache accepts a cache whose objects are a map or a sequence and
\* whose dependencies are {table_level, column_level} or a flat sequence: in
\* all four combinations it succeeds and builds the indices that the
\* map / {table_level, column_level} form of the same data builds.
C13_LoadAcceptsShapes ==
    load_input # NoFile =>
        /\ load_raised = ""
        /\ phase = "loaded"
        /\ EngineIs(ReferenceEngine(load_input.data))

\* The objects that satisfy the filters of the listing, read off the objects
\* themselves; an absent (or empty) filter admits every object.
Matching(schema_filter, type_filter) ==
    {id \in DOMAIN objects :
        /\ schema_filter = "" \/ objects[id].schema_name = schema_filter
        /\ type_filter = "" \/ objects[id].type = type_filter}

Ascending(items) ==
    \A i, j \in DOMAIN items : i < j => IdRank(items[i].id) < IdRank(items[j].id)

\* C17: for every filter combination, page >= 1 and page_size in 1..200 the
\* listing returns items in ascending id order, total is the number of
\* objects matching the filters, total_pages is ceil(total / page_size), the
\* pages 1..total_pages together hold every matching object exactly once,
\* and a page beyond total_pages is empty.
C17_PagesPartitionMatching ==
    listing # NoListing =>
        LET all == listing.seen \o listing.items
            matching == Matching(listing.schema, listing.type)
        IN  /\ Ascending(listing.items)
            /\ \A i \in DOMAIN listing.items :
                 listing.items[i] = objects[listing.items[i].id]
            /\ Len(listing.items) <= listing.page_size
            /\ listing.total = Cardinality(matching)
            /\ listing.total_pages * listing.page_size >= listing.total
            /\ listing.total_pages * listing.page_size < listing.total + listing.page_size
            /\ listing.page > listing.total_pages => listing.items = << >>
            /\ listing.page >= listing.total_pages =>
                 /\ Len(all) = Cardinality(matching)
                 /\ {all[i].id : i \in DOMAIN all} = matching
                 /\ Ascending(all)

\* C17 witness: the last of several pages, shorter than the page size because
\* the objects left do not fill it.
C17_Witness ==
    /\ listing # NoListing
    /\ listing.page = listing.total_pages
    /\ listing.total_pages >= 2
    /\ listing.seen # << >>
    /\ listing.items # << >>
    /\ Len(listing.items) < listing.page_size

(***************************************************************************)
(* Properties of the cache loader.                                         *)
(***************************************************************************)
\* The engine holds exactly what its cache holds.
FullyBuilt(e) ==
    /\ e.src \in {"v1", "v2"}
    /\ e.objects = FileObjects(e.src)
    /\ e.deps = FileDeps(e.src)

\* The engine the handle names is left as it is by the step.
HandleEngineNotMutated ==
    ldr_engine # 0 =>
        /\ heap'[ldr_engine].objects = heap[ldr_engine].objects
        /\ heap'[ldr_engine].deps = heap[ldr_engine].deps

\* A step that changes the handle makes it name a fully built engine.
HandleSwapsToBuilt ==
    ldr_engine' # ldr_engine => (ldr_engine' # 0 /\ FullyBuilt(heap'[ldr_engine']))

\* C14: under every interleaving of load / reload with readers, an engine
\* obtainable through the process-wide handle is fully built from its cache
\* and is not mutated afterwards, and the handle passes from one fully built
\* engine to the next in a single step.
C14_HandleHoldsBuiltEngine ==
    /\ [](ldr_engine # 0 => FullyBuilt(heap[ldr_engine]))
    /\ [][HandleEngineNotMutated /\ HandleSwapsToBuilt]_vars

StatisticsResponses == {r \in responses : r.route = "statistics" /\ r.status = 200}

\* C15: the cache_loaded_at of a statistics response is the load time of the
\* engine snapshot that computed its counts, two responses with the same
\* cache_loaded_at were computed from the same snapshot, and the loader's
\* load time never decreases from one load to the next.
C15_LoadedAtNamesSnapshot ==
    /\ [](\A r \in StatisticsResponses :
            /\ r.cache_loaded_at # 0
            /\ r.cache_loaded_at = heap[r.engine].stamp
            /\ r.total_objects = Cardinality(FileObjects(heap[r.engine].src))
            /\ r.total_dependencies = FileDeps(heap[r.engine].src))
    /\ [](\A r1, r2 \in StatisticsResponses :
            r1.cache_loaded_at = r2.cache_loaded_at =>
                /\ r1.engine = r2.engine
                /\ r1.total_objects = r2.total_objects
                /\ r1.total_dependencies = r2.total_dependencies)
    /\ [][(ldr_loaded_at # 0 /\ ldr_loaded_at' # 0) => ldr_loaded_at' >= ldr_loaded_at]_vars

\* C16: when startup went on without a cache, every query for an object id
\* is answered 404, and no other error, until a load or reload succeeds.
C16_NotFoundWithoutCache ==
    \A r \in responses : (r.route = "object" /\ r.no_cache) => r.status = 404

(***************************************************************************)
(* Properties of the SQL parser and of the extractor's UDF dependencies.   *)
(***************************************************************************)
\* C18: a name declared as a CTE in the statement is the name of no table
\* reference that SQLParser.parse returns for it, whether the AST path or the
\* regex fallback path produced the references.
C18_CteNamesNeverReturned ==
    (references.returned /\ sql.cte # "")
        => \A i \in DOMAIN references.refs : references.refs[i].name # Upper(sql.cte)

\* C19: every reference SQLParser.parse returns, on either path, has a name
\* that (uppercased) is no SQL function and no SQL keyword, starts with no
\* variable prefix and not with '@', and has a schema when require_schema is set.
C19_ReturnedNamesPassFilters ==
    references.returned
        => \A i \in DOMAIN references.refs :
              LET ref == references.refs[i]
              IN /\ Upper(ref.name) \notin SQL_FUNCTIONS
                 /\ Upper(ref.name) \notin SQL_KEYWORDS
                 /\ ~StartsWithVariablePrefix(Upper(ref.name))
                 /\ ~StartsWithAt(ref.name)
                 /\ (require_schema => ref.schema # "")

\* The fallback path has parsed, with require_schema set, a statement that
\* declares a CTE and names a function and a keyword as tables, and has
\* returned a reference.
C19_Witness ==
    /\ references.returned
    /\ ~has_sqlglot
    /\ require_schema
    /\ sql.cte = "c"
    /\ sql.from.name = "sum"
    /\ sql.join.name = "dual"
    /\ references.refs # << >>

\* The tables the statement reads.
ReadTables(stmt) ==
    {stmt.from} \cup (IF stmt.join = NoTable THEN {} ELSE {stmt.join})
                \cup (IF stmt.cte = "" THEN {} ELSE {CteSource})

\* C20: for a UDF whose script runs INSERT INTO T ... SELECT ... FROM S, with
\* T and S objects of the extraction and T not read by the statement, the
\* extractor records the write edge UDF -> T (UDF_OUTPUT, INSERT) and the read
\* edge S -> UDF (UDF_INPUT, SELECT), and records no table other than T as
\* written by the UDF.
C20_InsertSelectEdges ==
    (/\ udf_deps.returned
     /\ sql.kind = "INSERT"
     /\ sql.target \in KnownObjects
     /\ sql.target \notin ReadTables(sql))
        => /\ [source_id |-> UdfId, target_id |-> sql.target,
               dependency_type |-> "UDF_OUTPUT", reference_type |-> "INSERT"]
                  \in Range(udf_deps.deps)
           /\ sql.from \in KnownObjects
                  => [source_id |-> sql.from, target_id |-> UdfId,
                      dependency_type |-> "UDF_INPUT", reference_type |-> "SELECT"]
                         \in Range(udf_deps.deps)
           /\ \A d \in Range(udf_deps.deps) :
                  d.dependency_type = "UDF_OUTPUT" => d.target_id = sql.target

\* C26: in the result of get_full_lineage, has_more_upstream[n] is true only
\* if some upstream neighbour of n is not among the result's nodes, and
\* has_more_downstream[n] only if some downstream neighbour of n is not; the
\* start node's flags included.
C26_HasMoreOnlyIfNeighbourAbsent ==
    FullDone =>
        /\ \A n \in DOMAIN result.has_more_upstream :
              result.has_more_upstream[n]
                 => \E m \in DictGet(backward_edges, n, {}) : m \notin NodeIds(result)
        /\ \A n \in DOMAIN result.has_more_downstream :
              result.has_more_downstream[n]
                 => \E m \in DictGet(forward_edges, n, {}) : m \notin NodeIds(result)

\* No thread is inside reload, the engine property or load.
NoLoadRunning == \A t \in Threads : th[t].pc \in {"idle", "endpoint", "stats_84"}

\* C28: a load or reload that fails leaves the handle and loaded_at as they
\* were before the call.  With the calls made one at a time (the startup load,
\* then at most one request or reload) and none running: the handle is None
\* only while no load has ever succeeded, it names a fully built engine whose
\* load time is loaded_at otherwise, and an engine handed to a route is fully
\* built.
C28_FailedLoadLeavesHandle ==
    (started /\ ops <= 1 /\ NoLoadRunning) =>
        /\ ldr_engine # 0 =>
              (FullyBuilt(heap[ldr_engine]) /\ ldr_loaded_at = heap[ldr_engine].stamp)
        /\ ldr_engine = 0 => (ldr_loaded_at = 0 /\ ~LoadSucceeded)
        /\ \A t \in Threads : th[t].pc = "endpoint" => FullyBuilt(heap[th[t].eng])

\* C30: when the statement of a UDF script writes a known table that it also
\* reads, the extractor records both the edge UDF -> table (UDF_OUTPUT) and
\* the edge table -> UDF (UDF_INPUT); removing duplicate references by
\* (schema, name) drops neither.
C30_SelfReferenceBothEdges ==
    (/\ udf_deps.returned
     /\ sql.kind = "INSERT"
     /\ sql.target \in KnownObjects
     /\ sql.target \in ReadTables(sql))
        => /\ \E d \in Range(udf_deps.deps) :
                 /\ d.dependency_type = "UDF_OUTPUT"
                 /\ d.source_id = UdfId
                 /\ d.target_id = sql.target
           /\ \E d \in Range(udf_deps.deps) :
                 /\ d.dependency_type = "UDF_INPUT"
                 /\ d.source_id = sql.target
                 /\ d.target_id = UdfId

\* C22: given a known_objects set, parse_script returns every extracted DDL
\* reference, and every non-DDL reference it returns has "schema.name" among
\* the known ids (a non-DDL reference that matches no known id is dropped);
\* for every known_objects set, the empty one and ids of three parts included.
C22_ValidatedAgainstKnown ==
    validated.returned =>
        /\ \A i \in DOMAIN validated.extracted :
              validated.extracted[i].reference_type = "DDL"
                 => \E j \in DOMAIN validated.refs :
                       /\ validated.refs[j].reference_type = "DDL"
                       /\ validated.refs[j].name = validated.extracted[i].name
        /\ \A j \in DOMAIN validated.refs :
              validated.refs[j].reference_type # "DDL"
                 => << validated.refs[j].schema, validated.refs[j].name >> \in validated.known

\* C29: when the input holds two statements, a base table read by the second
\* statement, which declares no CTE, is among the returned references whenever
\* its name passes the lexical filters, whatever CTE names the first
\* statement declares.
C29_CteScopedToStatement ==
    (/\ references.returned
     /\ sql_more # << >>
     /\ is_valid_table_name(sql_more[1].from.name, sql_more[1].from.schema, require_schema))
        => \E i \in DOMAIN references.refs :
              /\ references.refs[i].name = Upper(sql_more[1].from.name)
              /\ references.refs[i].schema = Upper(sql_more[1].from.schema)

ColumnKey(c) == << c.source_object_id, c.source_column, c.target_object_id, c.target_column >>

\* C25: after a merge of two caches in the {table_level, column_level} shape,
\* the merged column_level holds every column-level dependency of the base
\* and every one of the new cache, no two entries with the same
\* (source_object_id, source_column, target_object_id, target_column).
C25_ColumnLevelMerged ==
    (Merged /\ BaseOf.dependencies.kind = "nested" /\ NewOf.dependencies.kind = "nested") =>
        LET merged == remerged.cache.dependencies.column_level
        IN /\ Range(BaseOf.dependencies.column_level) \subseteq Range(merged)
           /\ Range(NewOf.dependencies.column_level) \subseteq Range(merged)
           /\ \A i, j \in DOMAIN merged : ColumnKey(merged[i]) = ColumnKey(merged[j]) => i = j


(***************************************************************************)
(* Properties of the column lineage queries.                               *)
(***************************************************************************)
\* The column keys within n edges of the keys of frontier, frontier included.
RECURSIVE ColumnBall(_, _, _)
ColumnBall(edges_map, frontier, n) ==
    IF n = 0 THEN frontier
    ELSE ColumnBall(edges_map,
                    frontier \cup UNION {ColumnNeighbors(edges_map, k) : k \in frontier},
                    n - 1)

StartKey == column_key(col_call.object_id, col_call.column_name)

\* The keys of the entries of a source_columns or target_columns list.
EntryKeys(entries) == [i \in DOMAIN entries |-> column_key(entries[i].object_id, entries[i].column)]

Injective(s) == \A i, j \in DOMAIN s : s[i] = s[j] => i = j

ExactlyWithin(entries, edges_map, wanted) ==
    /\ Injective(EntryKeys(entries))
    /\ Range(EntryKeys(entries)) =
          IF wanted THEN ColumnBall(edges_map, {StartKey}, col_call.depth) \ {StartKey} ELSE {}

ColumnListsExact ==
    col_pc = "done" =>
        /\ ExactlyWithin(col_response.source_columns, ColumnBackwardEdges(column_deps),
                         col_call.direction \in {"upstream", "both"})
        /\ ExactlyWithin(col_response.target_columns, ColumnForwardEdges(column_deps),
                         col_call.direction \in {"downstream", "both"})

C27_EntriesEqualDependencyFields ==
    /\ col_pc = "done" =>
          LET sources == col_response.source_columns
              targets == col_response.target_columns
              deps == col_response.column_deps
          IN /\ \A i \in DOMAIN sources :
                   /\ sources[i].object_id = deps[i].source_object_id
                   /\ sources[i].column = deps[i].source_column
             /\ \A j \in DOMAIN targets :
                   /\ targets[j].object_id = deps[Len(sources) + j].target_object_id
                   /\ targets[j].column = deps[Len(sources) + j].target_column
    /\ LET pairs == {<< column_deps[i].source_object_id, column_deps[i].source_column >> :
                        i \in DOMAIN column_deps}
                    \cup {<< column_deps[i].target_object_id, column_deps[i].target_column >> :
                        i \in DOMAIN column_deps}
       IN \A p, q \in pairs : column_key(p[1], p[2]) = column_key(q[1], q[2]) => p = q


C24_DependencyEndpointsAreObjects ==
    \A i \in DOMAIN frag_deps :
        /\ frag_deps[i].source_id \in DOMAIN frag_objects
        /\ frag_deps[i].target_id \in DOMAIN frag_objects

\* The BigQuery extractor has recorded a dependency on a table it did not
\* extract and has inserted the placeholder for it.
C24_Witness ==
    /\ extractor = "bigquery"
    /\ \E i \in DOMAIN frag_deps :
          /\ frag_deps[i].source_id \notin DOMAIN BqExtracted
          /\ frag_deps[i].source_id \in DOMAIN frag_objects
          /\ frag_objects[frag_deps[i].source_id].owner = "EXTERNAL"

====
